---------------------------- MODULE Spec2Model ----------------------------
(***************************************************************************)
(* Model of the local speaker-diarization pipeline of the repository:      *)
(*   audio/simple_speaker_diarization.py  (SimpleSpeakerDiarizer)          *)
(*   audio/diarization_processor.py       (DiarizationProcessor)           *)
(*                                                                         *)
(* Time is counted in ticks of 10 ms, so that every time the code handles  *)
(* on the modelled inputs (frame boundaries are multiples of 30 ms, the    *)
(* thresholds 0.3 s, 0.5 s, 1.0 s, 2.0 s) is an integer.  Where the code's *)
(* double-precision arithmetic differs from exact arithmetic on these      *)
(* values (a gap of exactly 0.3 s, int(start * sample_rate)) the model     *)
(* carries the table of the IEEE-754 results.                              *)
(***************************************************************************)
EXTENDS Integers, Sequences, FiniteSets, TLC

VARIABLES
    pc,               \* position of the running call
    waveform,         \* the loaded mono 16 kHz waveform (process_audio)
    n_speakers,       \* SimpleSpeakerDiarizer.n_speakers (None or a count)
    speech_segments,  \* result of _detect_speech
    features,         \* result of _extract_features
    n_clusters,       \* local of _cluster_speakers / _validate_and_refine_clusters
    km2,              \* the 2-cluster k-means labelling of the current features, once fit
    labels,           \* labels of _cluster_speakers
    avg_distance,     \* mean centroid distance of the first k-means (local of _cluster_speakers)
    segments,         \* speaker segments (_create_segments, _smooth_speaker_transitions)
    smoothed_once,    \* what the first _smooth_speaker_transitions call returned
    raised,           \* an exception left the running call
    whisper_segments, \* transcript segments given to the aligner
    speaker_segments, \* speaker segments given to the aligner
    result_segments,  \* result of _assign_speakers_to_whisper_segments
    max_speakers,     \* settings.MAX_SPEAKERS (environment ATA_MAX_SPEAKERS)
    silhouette,       \* what the candidates of _estimate_n_speakers met: fit and score
    retry_distance,   \* mean centroid distance of the 2-cluster refit of line 182
    attempt,          \* loop variable of the request loop of process_complete_audio
    full_transcription, \* local of process_complete_audio
    result,           \* the dictionary process_complete_audio returned
    error,            \* the exception caught by process_complete_audio
    stats,            \* the dictionary a speaker-statistics function returned
    is_recording,     \* AudioProcessor.is_recording
    system_buffer,    \* AudioProcessor.system_buffer: blocks of the system stream
    mic_buffer,       \* AudioProcessor.mic_buffer: blocks of the microphone stream
    output_buffer,    \* AudioProcessor.output_buffer: mixed chunks not yet taken
    sf_file,          \* AudioProcessor.sf_file: the chunks written, and whether closed
    streams,          \* the two input streams: running or not, blocks delivered
    writer,           \* position of the writer thread (_writer_loop)
    data_to_write,    \* local of _writer_loop
    stopper,          \* position of the thread that calls stop()
    upload_attempt,   \* loop variable `attempt` of _process_standard_file
    posts,            \* what each POST of _process_standard_file met, in order
    delays,           \* the time.sleep calls of _process_standard_file, in seconds
    upload_result     \* what _process_standard_file returned or raised

vars == <<pc, waveform, n_speakers, speech_segments, features, n_clusters, km2,
          labels, avg_distance, segments, smoothed_once, raised,
          whisper_segments, speaker_segments, result_segments,
          max_speakers, silhouette, retry_distance,
          attempt, full_transcription, result, error, stats,
          is_recording, system_buffer, mic_buffer, output_buffer, sf_file,
          streams, writer, data_to_write, stopper,
          upload_attempt, posts, delays, upload_result>>

estVars == <<max_speakers, silhouette, retry_distance>>

diarVars == <<waveform, n_speakers, speech_segments, features, n_clusters, km2,
              labels, avg_distance, segments, smoothed_once, raised, estVars>>

procVars == <<attempt, full_transcription, result, error>>

alignVars == <<whisper_segments, speaker_segments, result_segments>>

statVars == <<stats>>

recVars == <<is_recording, system_buffer, mic_buffer, output_buffer, sf_file,
             streams, writer, data_to_write, stopper>>

upVars == <<upload_attempt, posts, delays, upload_result>>

\* what the diarizer and the diarization processor do not touch
extVars == <<statVars, recVars, upVars>>

----------------------------------------------------------------------------
(* Program constants *)

sample_rate == 16000
frame_duration == 30
min_cluster_size == 3
MAX_SPEAKERS == 3
\* the model's unit of time: 10 ms
TicksPerSecond == 1000 \div 10
\* settings.MIN_SPEECH_DURATION = 0.5 s, in ticks
MIN_SPEECH_DURATION == 50
\* _merge_segments(gap_threshold=0.3), in ticks
gap_threshold == 30
None == -1

(* Bounds of the model *)

\* number of speech/silence runs a modelled waveform is made of
MaxRuns == 5
\* number of feature rows given directly to _cluster_speakers
MaxRows == 6
\* number of speaker segments given directly to _smooth_speaker_transitions
MaxSegs == 3
\* number of transcript segments / speaker segments given to the aligner
MaxAlign == 2
\* number of feature rows given directly to _estimate_n_speakers
MaxEstRows == 15
\* number of blocks each input stream delivers during a recording
MaxBlocks == 2

----------------------------------------------------------------------------
(* Generic helpers *)

Min(a, b) == IF a < b THEN a ELSE b
Max(a, b) == IF a > b THEN a ELSE b

RECURSIVE SeqsUpTo(_, _)
\* all sequences over S of length 0..n
SeqsUpTo(S, n) ==
    IF n = 0 THEN {<<>>}
    ELSE LET shorter == SeqsUpTo(S, n - 1)
         IN  shorter \cup {Append(s, x) : s \in {t \in shorter : Len(t) = n - 1}, x \in S}

\* np.ones for np.zeros: a collapse that names the single speaker 1
Ones(n) == [i \in 1..n |-> 1]

\* np.zeros(n, dtype=int)
Zeros(n) == [i \in 1..n |-> 0]

\* np.sum(labels == c)
CountLabel(lab, c) == Cardinality({i \in 1..Len(lab) : lab[i] = c})

----------------------------------------------------------------------------
(* _detect_speech and _merge_segments *)

\* frame_length = int(self.sample_rate * self.frame_duration / 1000)
FrameLength == (sample_rate * frame_duration) \div 1000

\* i / self.sample_rate for a sample index i, in ticks (exact for the frame
\* boundaries, which are multiples of 480 samples = 3 ticks)
TimeOf(i) == (i * TicksPerSecond) \div sample_rate

\* len(waveform): the complete frames and the samples after the last one
WaveLen(w) == Len(w.speech) * FrameLength + w.tail

\* range(0, len(waveform) - frame_length, frame_length), as the number of
\* frames the loop visits: frames k = 0 .. FramesVisited-1 start at k*frame_length
FramesVisited(w) ==
    LET stop == WaveLen(w) - FrameLength
    IN  IF stop <= 0 THEN 0 ELSE (stop + FrameLength - 1) \div FrameLength

\* the loop of _detect_speech over the first n visited frames: one raw
\* interval (start_time, end_time) per frame the detector calls speech, in
\* the order of the frames
RawSegments(w, n) ==
    LET IsSpeech(k) == w.speech[k]
        frames == SelectSeq([k \in 1..n |-> k], IsSpeech)
    IN  [j \in 1..Len(frames) |->
            <<TimeOf((frames[j] - 1) * FrameLength), TimeOf(frames[j] * FrameLength)>>]

\* The frames e (current_end = 0.03 * e seconds) for which the double-precision
\* value of  0.03*(e+10) - 0.03*e  computed as in line 77 is below 0.3, for
\* e = 0 .. 129 (the exact difference is 0.3).
GapRoundsBelow ==
    {9, 13, 18, 22, 28, 29, 30, 31, 36, 37, 45, 53, 54, 57, 59, 61, 66, 68, 70,
     72, 74, 75, 77, 79, 81, 82, 83, 84, 86, 88, 90, 91, 93, 95, 97, 99, 100,
     102, 104, 106, 107, 108, 109, 111, 113, 115, 116, 118, 120, 122, 124, 125,
     128, 129}

\* start - current_end < gap_threshold, as the doubles compare
GapBelowThreshold(start, current_end) ==
    \/ start - current_end < gap_threshold
    \/ /\ start - current_end = gap_threshold
       /\ (current_end * 10) \div frame_duration \in GapRoundsBelow

\* lines 80 and 84 without the test: every chain is kept, however short
KeepEveryChain(current_start, current_end) == current_end >= current_start

\* current_end - current_start >= settings.MIN_SPEECH_DURATION (exact on
\* multiples of 0.03 s: no multiple of 0.03 is 0.5)
LongEnough(current_start, current_end) ==
    current_end - current_start >= MIN_SPEECH_DURATION

RECURSIVE MergeLoop(_, _, _, _, _)
\* the for loop of _merge_segments from position k on
MergeLoop(segs, k, current_start, current_end, merged) ==
    IF k > Len(segs)
    THEN IF LongEnough(current_start, current_end)
         THEN Append(merged, <<current_start, current_end>>)
         ELSE merged
    ELSE LET start == segs[k][1]
             end   == segs[k][2]
         IN  IF GapBelowThreshold(start, current_end)
             THEN MergeLoop(segs, k + 1, current_start, end, merged)
             ELSE MergeLoop(segs, k + 1, start, end,
                            IF LongEnough(current_start, current_end)
                            THEN Append(merged, <<current_start, current_end>>)
                            ELSE merged)

RECURSIVE MergeLoopNoReset(_, _, _, _, _)
\* _merge_segments with the slip of keeping current_start when a new run begins
MergeLoopNoReset(segs, k, current_start, current_end, merged) ==
    IF k > Len(segs)
    THEN IF LongEnough(current_start, current_end)
         THEN Append(merged, <<current_start, current_end>>)
         ELSE merged
    ELSE LET start == segs[k][1]
             end   == segs[k][2]
         IN  IF GapBelowThreshold(start, current_end)
             THEN MergeLoopNoReset(segs, k + 1, current_start, end, merged)
             ELSE MergeLoopNoReset(segs, k + 1, current_start, end,
                            IF LongEnough(current_start, current_end)
                            THEN Append(merged, <<current_start, current_end>>)
                            ELSE merged)

merge_segments_noreset(segs) ==
    IF segs = <<>> THEN <<>>
    ELSE MergeLoopNoReset(segs, 2, segs[1][1], segs[1][2], <<>>)

merge_segments(segs) ==
    IF segs = <<>> THEN <<>>
    ELSE MergeLoop(segs, 2, segs[1][1], segs[1][2], <<>>)

\* self.vad.is_speech (line 57) raises on a frame the loop visits; nothing
\* in _detect_speech catches it
DetectorRejects(w) == w.reject \in 1..FramesVisited(w)

\* _detect_speech when the detector gives a verdict on every frame
detect_speech(w) == merge_segments(RawSegments(w, FramesVisited(w)))

----------------------------------------------------------------------------
(* _extract_features *)

\* The frame boundaries k (time 0.03 * k seconds, k = 0 .. 339) for which
\* int(t * self.sample_rate) is one sample below the exact 480 * k.
TruncatesBelow == {67, 134, 268, 273}

\* int(t * self.sample_rate) for a frame-boundary time t in ticks
SampleOf(t) ==
    LET exact == (t * sample_rate) \div TicksPerSecond
    IN  IF (t * 10) \div frame_duration \in TruncatesBelow /\ (t * 10) % frame_duration = 0
        THEN exact - 1 ELSE exact

\* The feature vector of one interval: a function of the samples
\* waveform[start_sample:end_sample] alone, kept as that slice (lines 93-131).
FeatureRow(w, seg) ==
    [lo |-> Min(SampleOf(seg[1]), WaveLen(w)), hi |-> Min(SampleOf(seg[2]), WaveLen(w))]

\* librosa.feature.delta (width 9) needs 9 analysis frames of hop 512:
\* a slice of fewer than 4096 samples makes line 103 raise.
DeltaWidth == 9
HopLength == 512
FeatureFails(w, seg) ==
    LET row == FeatureRow(w, seg)
    IN  1 + (row.hi - row.lo) \div HopLength < DeltaWidth

RECURSIVE ExtractLoop(_, _, _)
\* the for loop of _extract_features over segs[k..]
ExtractLoop(w, segs, k) ==
    IF k > Len(segs) THEN <<>>
    ELSE <<FeatureRow(w, segs[k])>> \o ExtractLoop(w, segs, k + 1)

RECURSIVE ExtractLoopSkipShort(_, _, _)
\* _extract_features with intervals shorter than 1 s left out of the matrix
ExtractLoopSkipShort(w, segs, k) ==
    IF k > Len(segs) THEN <<>>
    ELSE IF segs[k][2] - segs[k][1] < TicksPerSecond
         THEN ExtractLoopSkipShort(w, segs, k + 1)
         ELSE <<FeatureRow(w, segs[k])>> \o ExtractLoopSkipShort(w, segs, k + 1)

extract_features_skip_short(w, segs) == ExtractLoopSkipShort(w, segs, 1)

extract_features(w, segs) == ExtractLoop(w, segs, 1)

----------------------------------------------------------------------------
(* _cluster_speakers, _estimate_n_speakers, _validate_and_refine_clusters *)

\* Mean centroid distances are kept in tenths: threshold = 2.0 (line 175) and
\* the collapse threshold 1.0 (line 187).
TooSimilar == 20
CollapseBelow == 10

\* The mean centroid distances the model lets k-means produce (tenths).
DistValues == {5, 10, 20}

\* KMeans(n_clusters=k).fit_predict on n rows: a label in 0..k-1 per row.
Labelings(n, k) == [1..n -> 0..(k - 1)]

\* KMeans is deterministic (random_state=42): a second fit with the same k on
\* the same scaled features returns the same labels.  Within one call of
\* _cluster_speakers only k = 2 is ever fit twice (every other k is fit at
\* most once, since k only decreases), so only that labelling is remembered.
FitPredict(k) ==
    IF k = 2 /\ km2 # <<>> THEN {km2} ELSE Labelings(Len(features), k)

\* Silhouette scores in tenths; silhouette_score may also raise (caught, line 263).
SilOutcomes ==
    {[ok |-> FALSE, score |-> 0]} \cup {[ok |-> TRUE, score |-> s] : s \in {-10, 0, 5}}

\* What one candidate count meets in the loop of _estimate_n_speakers:
\* KMeans.fit_predict (lines 251-252) raises (fit = FALSE) or returns labels,
\* and then silhouette_score raises or returns a score.
CandidateOutcomes ==
    {[fit |-> FALSE, ok |-> FALSE, score |-> 0]}
    \cup {[fit |-> TRUE, ok |-> o.ok, score |-> o.score] : o \in SilOutcomes}

\* max_clusters of _estimate_n_speakers (lines 231-232)
EstimateMaxClusters(n) == Max(Min(Min(max_speakers, n \div 3), 5), 2)

\* What the candidates 1..max_clusters meet on n rows, or would meet where
\* the loop does not get to them.  No silhouette score is computed for
\* candidate 1 (line 255); KMeans raises for more clusters than rows and
\* silhouette_score for more than rows - 1 clusters.
CandidateRuns(n) ==
    {out \in [1..EstimateMaxClusters(n) -> CandidateOutcomes] :
        /\ ~out[1].ok
        /\ \A k \in 1..EstimateMaxClusters(n) :
              /\ out[k].fit => k <= n
              /\ out[k].ok => k < n}

\* best_score = -1 (line 238), in tenths
BaselineScore == 0 - 10

RECURSIVE EstimateLoopLastTie(_, _, _, _, _)
\* the loop of lines 246-264 with score >= best_score for score > best_score
EstimateLoopLastTie(n, sil, k, best_n_clusters, best_score) ==
    IF k > EstimateMaxClusters(n) THEN best_n_clusters
    ELSE IF n <= k THEN EstimateLoopLastTie(n, sil, k + 1, best_n_clusters, best_score)
    ELSE IF k > 1 /\ sil[k].ok /\ sil[k].score >= best_score
         THEN EstimateLoopLastTie(n, sil, k + 1, k, sil[k].score)
         ELSE EstimateLoopLastTie(n, sil, k + 1, best_n_clusters, best_score)

RECURSIVE EstimateLoop(_, _, _, _, _)
\* the for loop of _estimate_n_speakers (lines 246-264) from candidate k on
EstimateLoop(n, sil, k, best_n_clusters, best_score) ==
    IF k > EstimateMaxClusters(n) THEN best_n_clusters
    ELSE IF n <= k THEN EstimateLoop(n, sil, k + 1, best_n_clusters, best_score)
    ELSE IF k > 1 /\ sil[k].ok /\ sil[k].score > best_score
         THEN EstimateLoop(n, sil, k + 1, k, sil[k].score)
         ELSE EstimateLoop(n, sil, k + 1, best_n_clusters, best_score)

\* KMeans.fit_predict of lines 251-252 stands outside the try of line 256:
\* when it raises for a candidate the loop reaches, _estimate_n_speakers raises
EstimateRaises(n, sil) ==
    /\ n >= 4
    /\ \E k \in 1..EstimateMaxClusters(n) : n > k /\ ~sil[k].fit

\* _estimate_n_speakers on n rows whose candidate k meets sil[k]: the count
\* it returns when it does not raise
estimate_n_speakers(n, sil) ==
    IF n < 4 THEN 1
    ELSE LET best == EstimateLoop(n, sil, 1, 1, BaselineScore)
         IN  IF best = 1 /\ n >= 10 THEN 2 ELSE best

\* lines 153-154: the clamp of self.n_speakers
ClampSpeakers(ns, n) ==
    IF n >= 5 THEN Max(2, Min(ns, max_speakers)) ELSE ns

\* scipy.signal.medfilt(labels, kernel_size=5): the median of the window of 5
\* around each position, the sequence padded with zeros
MedWindow(lab, i) ==
    [j \in 1..5 |-> IF i + j - 3 >= 1 /\ i + j - 3 <= Len(lab) THEN lab[i + j - 3] ELSE 0]
Median5(win) ==
    CHOOSE v \in {win[j] : j \in 1..5} :
        /\ Cardinality({j \in 1..5 : win[j] < v}) <= 2
        /\ Cardinality({j \in 1..5 : win[j] <= v}) >= 3
medfilt(lab) == [i \in 1..Len(lab) |-> Median5(MedWindow(lab, i))]

\* lines 192-206 looking at cluster 0 only
SizeLoopFirstOnly(lab, nc, i) ==
    IF CountLabel(lab, 0) < min_cluster_size
    THEN IF nc > 2 THEN "refine" ELSE "collapse"
    ELSE "pass"

RECURSIVE SizeLoop(_, _, _)
\* the for loop of lines 192-206 from cluster i on: what it decides
SizeLoop(lab, nc, i) ==
    IF i >= nc THEN "pass"
    ELSE IF CountLabel(lab, i) < min_cluster_size
         THEN IF nc > 2 THEN "refine"
              ELSE IF CountLabel(lab, 0) < min_cluster_size
                      \/ CountLabel(lab, 1) < min_cluster_size
                   THEN "collapse"
                   ELSE SizeLoop(lab, nc, i + 1)
         ELSE SizeLoop(lab, nc, i + 1)

RECURSIVE ValidateLoopNoCollapse(_, _, _)
\* lines 216-224 without the return of zeros at two clusters
ValidateLoopNoCollapse(lab, nc, i) ==
    IF i >= nc THEN "pass"
    ELSE IF CountLabel(lab, i) < min_cluster_size /\ nc > 2 THEN "refine"
         ELSE ValidateLoopNoCollapse(lab, nc, i + 1)

RECURSIVE ValidateLoop(_, _, _)
\* the for loop of _validate_and_refine_clusters (lines 216-224)
ValidateLoop(lab, nc, i) ==
    IF i >= nc THEN "pass"
    ELSE IF CountLabel(lab, i) < min_cluster_size
         THEN IF nc > 2 THEN "refine" ELSE "collapse"
         ELSE ValidateLoop(lab, nc, i + 1)

\* _cluster_speakers with the early return of line 137 taken for one row only
ClusterStartOneRow ==
    /\ pc = "cluster"
    /\ IF Len(features) = 1
       THEN /\ labels' = Zeros(Len(features))
            /\ pc' = "create"
            /\ UNCHANGED <<n_speakers, n_clusters>>
       ELSE IF n_speakers = None
            THEN /\ pc' = "estimate"
                 /\ UNCHANGED <<n_speakers, n_clusters, labels>>
            ELSE /\ pc' = "clamp"
                 /\ UNCHANGED <<n_speakers, n_clusters, labels>>
    /\ UNCHANGED <<waveform, speech_segments, features, km2, avg_distance,
                   segments, smoothed_once, raised>>
    /\ UNCHANGED alignVars
    /\ UNCHANGED estVars
    /\ UNCHANGED procVars
    /\ UNCHANGED extVars

\* _cluster_speakers, lines 137-146: the early return and the test for a
\* speaker count
ClusterStart ==
    /\ pc = "cluster"
    /\ IF Len(features) < 2
       THEN /\ labels' = Zeros(Len(features))
            /\ pc' = "create"
            /\ UNCHANGED <<n_speakers, n_clusters>>
       ELSE IF n_speakers = None
            THEN /\ pc' = "estimate"
                 /\ UNCHANGED <<n_speakers, n_clusters, labels>>
            ELSE /\ pc' = "clamp"
                 /\ UNCHANGED <<n_speakers, n_clusters, labels>>
    /\ UNCHANGED <<waveform, speech_segments, features, km2, avg_distance,
                   segments, smoothed_once, raised>>
    /\ UNCHANGED alignVars
    /\ UNCHANGED estVars
    /\ UNCHANGED procVars
    /\ UNCHANGED extVars

\* _cluster_speakers, lines 146-149 without a speaker count: the estimate is
\* stored in self.n_speakers; what _estimate_n_speakers raises is not caught
Estimate ==
    /\ pc = "estimate"
    /\ \E out \in CandidateRuns(Len(features)) :
          /\ silhouette' = out
          /\ IF EstimateRaises(Len(features), out)
             THEN /\ raised' = TRUE
                  /\ pc' = "raised"
                  /\ UNCHANGED n_speakers
             ELSE /\ n_speakers' = estimate_n_speakers(Len(features), out)
                  /\ pc' = "clamp"
                  /\ UNCHANGED raised
    /\ UNCHANGED <<waveform, speech_segments, features, n_clusters, km2, labels,
                   avg_distance, segments, smoothed_once>>
    /\ UNCHANGED alignVars
    /\ UNCHANGED <<max_speakers, retry_distance>>
    /\ UNCHANGED procVars
    /\ UNCHANGED extVars

\* _cluster_speakers, lines 153-156: the clamp of self.n_speakers and n_clusters
Clamp ==
    /\ pc = "clamp"
    /\ n_speakers' = ClampSpeakers(n_speakers, Len(features))
    /\ n_clusters' = Min(n_speakers', Len(features))
    /\ pc' = "kmeans"
    /\ UNCHANGED <<waveform, speech_segments, features, km2, labels, avg_distance,
                   segments, smoothed_once, raised>>
    /\ UNCHANGED alignVars
    /\ UNCHANGED estVars
    /\ UNCHANGED procVars
    /\ UNCHANGED extVars

\* lines 159-189: the first k-means and the separation check.  The labels of
\* the first fit are overwritten when line 182 fits again with 2 clusters.
FirstKMeans ==
    /\ pc = "kmeans"
    /\ \E d \in (IF n_clusters > 1 THEN DistValues ELSE {None}) :
          LET checked  == n_clusters > 1 /\ d < TooSimilar
              retry    == checked /\ n_clusters > 2
              collapse == checked /\ ~(n_clusters > 2) /\ d < CollapseBelow
          IN  /\ avg_distance' = d
              /\ pc' = IF collapse THEN "create" ELSE "sizecheck"
              /\ IF retry
                 THEN \E lab2 \in FitPredict(2), d2 \in DistValues :
                         /\ labels' = lab2
                         /\ km2' = lab2
                         /\ retry_distance' = d2
                 ELSE \E lab \in FitPredict(n_clusters) :
                         /\ labels' = IF collapse THEN Zeros(Len(features)) ELSE lab
                         /\ km2' = IF n_clusters = 2 THEN lab ELSE km2
                         /\ UNCHANGED retry_distance
    /\ UNCHANGED <<waveform, n_speakers, speech_segments, features, n_clusters,
                   segments, smoothed_once, raised>>
    /\ UNCHANGED alignVars
    /\ UNCHANGED <<max_speakers, silhouette>>
    /\ UNCHANGED procVars
    /\ UNCHANGED extVars

\* lines 191-212: the minimum-cluster-size check and the median filter
SizeCheck ==
    /\ pc = "sizecheck"
    /\ LET verdict == SizeLoop(labels, n_clusters, 0)
       IN  IF verdict = "refine"
           THEN \E lab \in FitPredict(n_clusters - 1) :
                   /\ labels' = lab
                   /\ km2' = IF n_clusters - 1 = 2 THEN lab ELSE km2
                   /\ n_clusters' = n_clusters - 1
                   /\ pc' = "validate"
           ELSE /\ labels' = IF verdict = "collapse" THEN Zeros(Len(features))
                             ELSE IF Len(labels) > 5 THEN medfilt(labels)
                             ELSE labels
                /\ pc' = "create"
                /\ UNCHANGED <<km2, n_clusters>>
    /\ UNCHANGED <<waveform, n_speakers, speech_segments, features, avg_distance,
                   segments, smoothed_once, raised>>
    /\ UNCHANGED alignVars
    /\ UNCHANGED estVars
    /\ UNCHANGED procVars
    /\ UNCHANGED extVars

\* _validate_and_refine_clusters(labels, features, n_clusters): one level of
\* the recursion; its result is returned by _cluster_speakers as it is
Validate ==
    /\ pc = "validate"
    /\ LET verdict == ValidateLoop(labels, n_clusters, 0)
       IN  IF verdict = "refine"
           THEN \E lab \in FitPredict(n_clusters - 1) :
                   /\ labels' = lab
                   /\ km2' = IF n_clusters - 1 = 2 THEN lab ELSE km2
                   /\ n_clusters' = n_clusters - 1
                   /\ pc' = "validate"
           ELSE /\ labels' = IF verdict = "collapse" THEN Zeros(Len(features))
                             ELSE labels
                /\ pc' = "create"
                /\ UNCHANGED <<km2, n_clusters>>
    /\ UNCHANGED <<waveform, n_speakers, speech_segments, features, avg_distance,
                   segments, smoothed_once, raised>>
    /\ UNCHANGED alignVars
    /\ UNCHANGED estVars
    /\ UNCHANGED procVars
    /\ UNCHANGED extVars

ClusterNext == ClusterStart \/ Estimate \/ Clamp \/ FirstKMeans \/ SizeCheck \/ Validate

----------------------------------------------------------------------------
(* _create_segments *)

\* f'SPEAKER_{int(label)}'
SpeakerName(label) ==
    CASE label = 0 -> "SPEAKER_0"
      [] label = 1 -> "SPEAKER_1"
      [] label = 2 -> "SPEAKER_2"
      [] label = 3 -> "SPEAKER_3"
      [] OTHER     -> "SPEAKER_4"

\* one speaker segment of _create_segments
MakeSegment(start, end, label) ==
    [start |-> start, end |-> end, speaker |-> SpeakerName(label),
     duration |-> end - start]

\* zip(speech_segments, labels) stops at the shorter of the two
create_segments(segs, lab) ==
    [i \in 1..Min(Len(segs), Len(lab)) |-> MakeSegment(segs[i][1], segs[i][2], lab[i])]

----------------------------------------------------------------------------
(* _smooth_speaker_transitions *)

RECURSIVE InsertByStart(_, _)
\* x put behind every element whose start is <= x.start
InsertByStart(sorted, x) ==
    IF sorted = <<>> THEN <<x>>
    ELSE IF sorted[Len(sorted)].start <= x.start THEN Append(sorted, x)
    ELSE Append(InsertByStart(SubSeq(sorted, 1, Len(sorted) - 1), x), sorted[Len(sorted)])

RECURSIVE SortByStart(_)
\* sorted(segments, key=lambda x: x['start']) and list.sort(key=...): stable
SortByStart(s) ==
    IF s = <<>> THEN <<>>
    ELSE InsertByStart(SortByStart(SubSeq(s, 1, Len(s) - 1)), s[Len(s)])

\* list.pop(i) for a 1-based position i
Pop(s, i) == SubSeq(s, 1, i - 1) \o SubSeq(s, i + 1, Len(s))

\* The thresholds of the smoother in ticks: 0.5 s (line 302), min_duration
\* = 1.0 s (line 286); the 0.3 s of line 330 compares as in GapBelowThreshold.
MergePause == 50
min_duration == 100

RECURSIVE MergePass(_, _)
\* the while loop of lines 295-311; i is the 1-based position of current
MergePass(s, i) ==
    IF ~(i < Len(s)) THEN s
    ELSE LET current  == s[i]
             next_seg == s[i + 1]
         IN  IF current.speaker = next_seg.speaker
                /\ next_seg.start - current.end < MergePause
             THEN MergePass(
                    Pop([s EXCEPT ![i] = [current EXCEPT
                                            !.end = next_seg.end,
                                            !.duration = next_seg.end - current.start]],
                        i + 1),
                    i)
             ELSE MergePass(s, i + 1)

RECURSIVE FlickerPass(_, _)
\* the while loop of lines 315-337; i is the 1-based position of current
FlickerPass(s, i) ==
    IF ~(i < Len(s)) THEN s
    ELSE LET prev     == s[i - 1]
             current  == s[i]
             next_seg == s[i + 1]
         IN  IF current.duration < min_duration
                /\ prev.speaker = next_seg.speaker
                /\ prev.speaker # current.speaker
             THEN IF GapBelowThreshold(next_seg.start, current.end)
                     /\ GapBelowThreshold(current.end, prev.end)
                  THEN FlickerPass(
                         Pop(Pop([s EXCEPT ![i - 1] = [prev EXCEPT
                                            !.end = next_seg.end,
                                            !.duration = next_seg.end - prev.start]],
                                 i), i),
                         i)
                  ELSE FlickerPass(
                         [s EXCEPT ![i] = [current EXCEPT !.speaker = prev.speaker]],
                         i + 1)
             ELSE FlickerPass(s, i + 1)

\* _smooth_speaker_transitions(segments): the list it returns
smooth_speaker_transitions(s) ==
    IF Len(s) <= 2 THEN s
    ELSE LET merged == MergePass(SortByStart(s), 1)
         IN  IF Len(merged) >= 3 THEN FlickerPass(merged, 2) ELSE merged

----------------------------------------------------------------------------
(* process_audio *)

\* line 32: speech_segments = self._detect_speech(waveform); what the
\* detector raises leaves _detect_speech and process_audio
Detect ==
    /\ pc = "detect"
    /\ IF DetectorRejects(waveform)
       THEN /\ raised' = TRUE
            /\ pc' = "raised"
            /\ UNCHANGED speech_segments
       ELSE /\ speech_segments' = detect_speech(waveform)
            /\ pc' = "extract"
            /\ UNCHANGED raised
    /\ UNCHANGED <<waveform, n_speakers, features, n_clusters, km2, labels,
                   avg_distance, segments, smoothed_once>>
    /\ UNCHANGED alignVars
    /\ UNCHANGED estVars
    /\ UNCHANGED procVars
    /\ UNCHANGED extVars

\* line 35: features = self._extract_features(waveform, speech_segments);
\* nothing in _extract_features catches what the feature computation raises
Extract ==
    /\ pc = "extract"
    /\ IF \E k \in 1..Len(speech_segments) : FeatureFails(waveform, speech_segments[k])
       THEN /\ raised' = TRUE
            /\ pc' = "raised"
            /\ UNCHANGED features
       ELSE /\ features' = extract_features(waveform, speech_segments)
            /\ pc' = "cluster"
            /\ UNCHANGED raised
    /\ UNCHANGED <<waveform, n_speakers, speech_segments, n_clusters, km2, labels,
                   avg_distance, segments, smoothed_once>>
    /\ UNCHANGED alignVars
    /\ UNCHANGED estVars
    /\ UNCHANGED procVars
    /\ UNCHANGED extVars

\* line 41: segments = self._create_segments(speech_segments, speaker_labels)
Create ==
    /\ pc = "create"
    /\ segments' = create_segments(speech_segments, labels)
    /\ pc' = "smooth"
    /\ UNCHANGED <<waveform, n_speakers, speech_segments, features, n_clusters,
                   km2, labels, avg_distance, smoothed_once, raised>>
    /\ UNCHANGED alignVars
    /\ UNCHANGED estVars
    /\ UNCHANGED procVars
    /\ UNCHANGED extVars

\* lines 44-46: segments = self._smooth_speaker_transitions(segments); return
Smooth ==
    /\ pc = "smooth"
    /\ segments' = smooth_speaker_transitions(segments)
    /\ smoothed_once' = segments'
    /\ pc' = "done"
    /\ UNCHANGED <<waveform, n_speakers, speech_segments, features, n_clusters,
                   km2, labels, avg_distance, raised>>
    /\ UNCHANGED alignVars
    /\ UNCHANGED estVars
    /\ UNCHANGED procVars
    /\ UNCHANGED extVars

\* a caller passing the returned list to _smooth_speaker_transitions again
SmoothAgain ==
    /\ pc = "done"
    /\ segments' = smooth_speaker_transitions(segments)
    /\ pc' = "resmoothed"
    /\ UNCHANGED <<waveform, n_speakers, speech_segments, features, n_clusters,
                   km2, labels, avg_distance, smoothed_once, raised>>
    /\ UNCHANGED alignVars
    /\ UNCHANGED estVars
    /\ UNCHANGED procVars
    /\ UNCHANGED extVars

----------------------------------------------------------------------------
(* The inputs of a process_audio call *)

\* run lengths, in frames: 9, 10 and 11 frames of silence are gaps of 0.27,
\* 0.30 and 0.33 s; 17 frames of speech are the shortest interval kept (0.51 s)
RunLens == {9, 10, 11, 17}

\* samples after the last complete frame
Tails == {0, 240}

RECURSIVE Expand(_, _)
\* the per-frame verdicts of alternating runs, the first one of kind `first`
Expand(runs, first) ==
    IF runs = <<>> THEN <<>>
    ELSE [k \in 1..runs[1] |-> first] \o Expand(Tail(runs), ~first)

\* two stretches of 5 s, one behind the other without a pause, every frame
\* of which the detector calls speech (10 s are 333 frames and 160 samples)
TwoTones ==
    LET samples == 2 * 5 * sample_rate
    IN  [speech |-> [k \in 1..(samples \div FrameLength) |-> TRUE],
         tail |-> samples % FrameLength, reject |-> 0]

\* the frame on which self.vad.is_speech raises: none (0), or the fifth
RejectedFrames == {0, 5}

Waveforms ==
    {[speech |-> Expand(runs, first), tail |-> t, reject |-> r] :
        runs \in SeqsUpTo(RunLens, MaxRuns), first \in BOOLEAN, t \in Tails,
        r \in RejectedFrames}
    \cup {TwoTones}

\* SimpleSpeakerDiarizer(n_speakers=...): no hint, or a count
Hints == {None, 1, 2, 3, 4}

NoAlign ==
    /\ whisper_segments = <<>>
    /\ speaker_segments = <<>>
    /\ result_segments = <<>>

\* no estimate made and no refit yet
NoEstimate ==
    /\ silhouette = <<>>
    /\ retry_distance = None

\* no exception caught (the model's value for "no exception")
NoError == "none"

\* no dictionary returned yet
NoResult == [returned |-> FALSE]

\* process_complete_audio not entered
NoProc ==
    /\ attempt = 0
    /\ full_transcription = <<>>
    /\ result = NoResult
    /\ error = NoError

\* no statistics computed
NoStats == stats = <<>>

\* one input stream: whether it is running, and how many blocks it delivered
NoStream == [running |-> FALSE, delivered |-> 0]

\* AudioProcessor.__init__ (lines 30-42): no recording started
NoRec ==
    /\ is_recording = FALSE
    /\ system_buffer = <<>>
    /\ mic_buffer = <<>>
    /\ output_buffer = <<>>
    /\ sf_file = [written |-> <<>>, closed |-> TRUE]
    /\ streams = [system |-> NoStream, mic |-> NoStream]
    /\ writer = "none"
    /\ data_to_write = <<>>
    /\ stopper = "none"

\* _process_standard_file not entered
NoUpload ==
    /\ upload_attempt = 0
    /\ posts = <<>>
    /\ delays = <<>>
    /\ upload_result = "none"

\* nothing outside the diarizer and the diarization processor has run
NoExt == NoStats /\ NoRec /\ NoUpload

Init ==
    /\ pc = "detect"
    /\ waveform \in Waveforms
    /\ n_speakers \in {None, 3}
    /\ speech_segments = <<>>
    /\ features = <<>>
    /\ n_clusters = 0
    /\ km2 = <<>>
    /\ labels = <<>>
    /\ avg_distance = None
    /\ segments = <<>>
    /\ smoothed_once = <<>>
    /\ raised = FALSE
    /\ NoAlign
    /\ NoEstimate
    /\ max_speakers = MAX_SPEAKERS
    /\ NoProc
    /\ NoExt

Next == Detect \/ Extract \/ ClusterStart \/ Estimate \/ Clamp \/ FirstKMeans
        \/ SizeCheck \/ Validate \/ Create \/ Smooth

Spec == Init /\ [][Next]_vars

----------------------------------------------------------------------------
(* _cluster_speakers called on a feature matrix of n rows *)

\* a matrix of n rows, row i computed from the i-th of n half-second slices
FeatureMatrix(n) == [i \in 1..n |-> [lo |-> (i - 1) * 8000, hi |-> i * 8000]]

\* values of settings.MAX_SPEAKERS (ATA_MAX_SPEAKERS)
MaxSpeakerSettings == {1, 2, 3}

InitCluster ==
    /\ pc = "cluster"
    /\ waveform = [speech |-> <<>>, tail |-> 0, reject |-> 0]
    /\ n_speakers \in Hints
    /\ speech_segments = <<>>
    /\ features \in {FeatureMatrix(n) : n \in 0..MaxRows}
    /\ n_clusters = 0
    /\ km2 = <<>>
    /\ labels = <<>>
    /\ avg_distance = None
    /\ segments = <<>>
    /\ smoothed_once = <<>>
    /\ raised = FALSE
    /\ NoAlign
    /\ NoEstimate
    /\ max_speakers \in MaxSpeakerSettings
    /\ NoProc
    /\ NoExt

SpecCluster == InitCluster /\ [][ClusterNext]_vars

----------------------------------------------------------------------------
(* _estimate_n_speakers called from line 148 on a feature matrix of n rows *)

\* values of settings.MAX_SPEAKERS for the estimate: below, at and above the
\* cap of 5 candidates of line 231
EstimateSettings == {1, 3, 5, 6}

InitEstimate ==
    /\ pc = "estimate"
    /\ waveform = [speech |-> <<>>, tail |-> 0, reject |-> 0]
    /\ n_speakers = None
    /\ speech_segments = <<>>
    /\ features \in {FeatureMatrix(n) : n \in 0..MaxEstRows}
    /\ n_clusters = 0
    /\ km2 = <<>>
    /\ labels = <<>>
    /\ avg_distance = None
    /\ segments = <<>>
    /\ smoothed_once = <<>>
    /\ raised = FALSE
    /\ NoAlign
    /\ NoEstimate
    /\ max_speakers \in EstimateSettings
    /\ NoProc
    /\ NoExt

NextEstimate == Estimate

SpecEstimate == InitEstimate /\ [][NextEstimate]_vars

----------------------------------------------------------------------------
(* _smooth_speaker_transitions called on a list of speaker segments *)

\* Segment lists as _create_segments builds them: frame-aligned, one behind
\* the other.  Durations and pauses in frames of 30 ms: 3, 17 and 34 frames
\* are 0.09, 0.51 and 1.02 s; pauses of 5, 11 and 17 frames are 0.15, 0.33
\* and 0.51 s.
SegDurs == {3, 17, 34}
SegPauses == {5, 11, 17}
SegShapes == [dur : SegDurs, pause : SegPauses, label : {0, 1}]

RECURSIVE LayOut(_, _)
\* the segments of the shapes, the first one starting at `at` (frames)
LayOut(shapes, at) ==
    IF shapes = <<>> THEN <<>>
    ELSE <<MakeSegment(at * 3, (at + shapes[1].dur) * 3, shapes[1].label)>>
         \o LayOut(Tail(shapes), at + shapes[1].dur + shapes[1].pause)

Reverse(s) == [i \in 1..Len(s) |-> s[Len(s) + 1 - i]]

SegmentLists ==
    LET shapes == {sh \in SeqsUpTo(SegShapes, MaxSegs) :
                      sh = <<>> \/ sh[Len(sh)].pause = 5}
        inOrder == {LayOut(sh, 0) : sh \in shapes}
    IN  inOrder \cup {Reverse(l) : l \in inOrder}

InitSmooth ==
    /\ pc = "smooth"
    /\ waveform = [speech |-> <<>>, tail |-> 0, reject |-> 0]
    /\ n_speakers = None
    /\ speech_segments = <<>>
    /\ features = <<>>
    /\ n_clusters = 0
    /\ km2 = <<>>
    /\ labels = <<>>
    /\ avg_distance = None
    /\ segments \in SegmentLists
    /\ smoothed_once = <<>>
    /\ raised = FALSE
    /\ NoAlign
    /\ NoEstimate
    /\ max_speakers = MAX_SPEAKERS
    /\ NoProc
    /\ NoExt

NextSmooth == Smooth \/ SmoothAgain

SpecSmooth == InitSmooth /\ [][NextSmooth]_vars

----------------------------------------------------------------------------
(* _extract_features called on a waveform and a list of intervals *)

\* a waveform of 160 frames (4.8 s), with or without samples behind them
LongWaveforms ==
    {[speech |-> [k \in 1..160 |-> TRUE], tail |-> t, reject |-> 0] : t \in Tails}

\* the (start, end) pairs of a list of speaker segments
IntervalsOf(l) == [i \in 1..Len(l) |-> <<l[i].start, l[i].end>>]

\* lists of frame-aligned intervals, one behind the other, of 0.09, 0.51
\* and 1.02 s
IntervalLists ==
    {IntervalsOf(LayOut(sh, 0)) : sh \in SeqsUpTo(SegShapes, MaxSegs)}

InitExtract ==
    /\ pc = "extract"
    /\ waveform \in LongWaveforms
    /\ n_speakers = None
    /\ speech_segments \in IntervalLists
    /\ features = <<>>
    /\ n_clusters = 0
    /\ km2 = <<>>
    /\ labels = <<>>
    /\ avg_distance = None
    /\ segments = <<>>
    /\ smoothed_once = <<>>
    /\ raised = FALSE
    /\ NoAlign
    /\ NoEstimate
    /\ max_speakers = MAX_SPEAKERS
    /\ NoProc
    /\ NoExt

SpecExtract == InitExtract /\ [][Extract]_vars

----------------------------------------------------------------------------
(* DiarizationProcessor._assign_speakers_to_whisper_segments *)

\* Texts are sequences of characters; " " is whitespace.
RECURSIVE LStrip(_)
LStrip(t) == IF t # <<>> /\ Head(t) = " " THEN LStrip(Tail(t)) ELSE t

RECURSIVE RStrip(_)
RStrip(t) ==
    IF t # <<>> /\ t[Len(t)] = " " THEN RStrip(SubSeq(t, 1, Len(t) - 1)) ELSE t

\* the text taken as it is, without strip()
NoStrip(t) == t

\* str.strip()
Strip(t) == RStrip(LStrip(t))

\* no speaker yet: best_speaker = None (line 246)
NoSpeaker == "None"

\* nearest_dist > 2.0 (line 278), in ticks
MaxNearestDist == 200

\* float('inf') (line 262): above every distance of the modelled inputs
Infinity == 1000000

RECURSIVE OverlapLoopLast(_, _, _, _, _)
\* lines 249-257 with >= for >: the last of several equal overlaps wins
OverlapLoopLast(w, spk, k, best_speaker, best_overlap) ==
    IF k > Len(spk) THEN <<best_speaker, best_overlap>>
    ELSE LET overlap_start == Max(w.start, spk[k].start)
             overlap_end   == Min(w.end, spk[k].end)
             overlap       == Max(0, overlap_end - overlap_start)
         IN  IF overlap >= best_overlap /\ overlap > 0
             THEN OverlapLoopLast(w, spk, k + 1, spk[k].speaker, overlap)
             ELSE OverlapLoopLast(w, spk, k + 1, best_speaker, best_overlap)

RECURSIVE OverlapLoop(_, _, _, _, _)
\* the loop of lines 249-257 from speaker segment k on:
\* <<best_speaker, best_overlap>> at its end
OverlapLoop(w, spk, k, best_speaker, best_overlap) ==
    IF k > Len(spk) THEN <<best_speaker, best_overlap>>
    ELSE LET overlap_start == Max(w.start, spk[k].start)
             overlap_end   == Min(w.end, spk[k].end)
             overlap       == Max(0, overlap_end - overlap_start)
         IN  IF overlap > best_overlap
             THEN OverlapLoop(w, spk, k + 1, spk[k].speaker, overlap)
             ELSE OverlapLoop(w, spk, k + 1, best_speaker, best_overlap)

\* lines 266-271: the distance of a transcript segment to a speaker segment
SegmentDist(w, sp) ==
    IF w.end < sp.start THEN sp.start - w.end
    ELSE IF w.start > sp.end THEN w.start - sp.end
    ELSE 0

RECURSIVE NearestLoop(_, _, _, _, _)
\* the loop of lines 264-275 from speaker segment k on:
\* <<best_speaker, nearest_dist>> at its end
NearestLoop(w, spk, k, best_speaker, nearest_dist) ==
    IF k > Len(spk) THEN <<best_speaker, nearest_dist>>
    ELSE LET dist == SegmentDist(w, spk[k])
         IN  IF dist < nearest_dist
             THEN NearestLoop(w, spk, k + 1, spk[k].speaker, dist)
             ELSE NearestLoop(w, spk, k + 1, best_speaker, nearest_dist)

\* lines 246-257: best_speaker after the overlap loop
BestByOverlap(w, spk) == OverlapLoop(w, spk, 1, NoSpeaker, 0)[1]

\* lines 260-279 with nearest_dist >= 2.0 for nearest_dist > 2.0
BestByDistanceStrict(w, spk) ==
    LET near == NearestLoop(w, spk, 1, NoSpeaker, Infinity)
    IN  IF near[2] >= MaxNearestDist THEN "SPEAKER_0" ELSE near[1]

\* lines 260-279: best_speaker after the nearest-speaker fallback
BestByDistance(w, spk) ==
    LET near == NearestLoop(w, spk, 1, NoSpeaker, Infinity)
    IN  IF near[2] > MaxNearestDist THEN "SPEAKER_0" ELSE near[1]

\* lines 246-283: the label given to transcript segment w
ResolveSpeaker(w, spk) ==
    LET byOverlap == BestByOverlap(w, spk)
        afterNear == IF byOverlap = NoSpeaker /\ spk # <<>>
                     THEN BestByDistance(w, spk) ELSE byOverlap
    IN  IF afterNear = NoSpeaker THEN "SPEAKER_0" ELSE afterNear

\* lines 286-292 with the overlapping part of the span for the transcript's span
LabeledSegmentClipped(w, spk) ==
    LET inside == {k \in 1..Len(spk) : Min(w.end, spk[k].end) > Max(w.start, spk[k].start)}
        k0     == IF inside = {} THEN 0 ELSE CHOOSE k \in inside : \A j \in inside : k <= j
        start  == IF k0 = 0 THEN w.start ELSE Max(w.start, spk[k0].start)
        end    == IF k0 = 0 THEN w.end ELSE Min(w.end, spk[k0].end)
    IN  [start |-> start, end |-> end, speaker |-> ResolveSpeaker(w, spk),
         text |-> Strip(w.text), duration |-> end - start]

\* lines 286-292: the segment appended for transcript segment w
LabeledSegment(w, spk) ==
    [start |-> w.start, end |-> w.end, speaker |-> ResolveSpeaker(w, spk),
     text |-> Strip(w.text), duration |-> w.end - w.start]

RECURSIVE AssignLoop(_, _, _)
\* the loop of lines 235-292 from transcript segment k on
AssignLoop(ws, spk, k) ==
    IF k > Len(ws) THEN <<>>
    ELSE IF Strip(ws[k].text) = <<>> THEN AssignLoop(ws, spk, k + 1)
    ELSE <<LabeledSegment(ws[k], spk)>> \o AssignLoop(ws, spk, k + 1)

\* _assign_speakers_to_whisper_segments(whisper_segments, speaker_segments)
assign_speakers_to_whisper_segments(ws, spk) == SortByStart(AssignLoop(ws, spk, 1))

\* line 176: the call; the arguments are only read
Assign ==
    /\ pc = "assign"
    /\ result_segments' = assign_speakers_to_whisper_segments(whisper_segments,
                                                               speaker_segments)
    /\ pc' = "assigned"
    /\ UNCHANGED <<whisper_segments, speaker_segments>>
    /\ UNCHANGED diarVars
    /\ UNCHANGED procVars
    /\ UNCHANGED extVars

(* The inputs of the aligner.  All times are multiples of 0.5 s, which doubles
   hold exactly, so the code's comparisons are the exact ones. *)

Texts == {<<" ">>, <<" ", "h", "i", " ">>}

\* transcript spans (start, end) in ticks
WhisperSpans == {<<100, 300>>, <<600, 700>>, <<650, 700>>}

WhisperSegs == {[start |-> sp[1], end |-> sp[2], text |-> t] : sp \in WhisperSpans, t \in Texts}

\* speaker spans (start, end) in ticks
SpeakerSpans == {<<0, 200>>, <<200, 400>>, <<0, 400>>}

SpeakerSegs == {MakeSegment(sp[1], sp[2], l) : sp \in SpeakerSpans, l \in {0, 1}}

InitAlign ==
    /\ pc = "assign"
    /\ waveform = [speech |-> <<>>, tail |-> 0, reject |-> 0]
    /\ n_speakers = None
    /\ speech_segments = <<>>
    /\ features = <<>>
    /\ n_clusters = 0
    /\ km2 = <<>>
    /\ labels = <<>>
    /\ avg_distance = None
    /\ segments = <<>>
    /\ smoothed_once = <<>>
    /\ raised = FALSE
    /\ whisper_segments \in SeqsUpTo(WhisperSegs, MaxAlign)
    /\ speaker_segments \in SeqsUpTo(SpeakerSegs, MaxAlign)
    /\ result_segments = <<>>
    /\ NoEstimate
    /\ max_speakers = MAX_SPEAKERS
    /\ NoProc
    /\ NoExt

NextAlign == Assign

SpecAlign == InitAlign /\ [][NextAlign]_vars

----------------------------------------------------------------------------
(* DiarizationProcessor.process_complete_audio *)

\* Texts are sequences of characters; the names of exceptions and the fixed
\* texts of the code are single elements of such sequences.

\* max_retries = 3 (line 54)
max_retries == 3

\* settings.WHISPERX_ENABLE_DIARIZATION (default True)
WHISPERX_ENABLE_DIARIZATION == TRUE

IsStop(c) == c \in {".", "!", "?"}

RECURSIVE SplitAtStops(_, _)
\* re.split(r'(?<=[.!?])\s+', text): text cut at every run of whitespace that
\* follows a full stop, exclamation or question mark; i is the position looked at
SplitAtStops(t, i) ==
    IF i > Len(t) THEN <<t>>
    ELSE IF i > 1 /\ IsStop(t[i - 1]) /\ t[i] = " "
         THEN <<SubSeq(t, 1, i - 1)>> \o SplitAtStops(LStrip(SubSeq(t, i, Len(t))), 1)
         ELSE SplitAtStops(t, i + 1)

RECURSIVE KeepSentences(_)
\* [s.strip() for s in sentences if len(s.strip()) > 2]
KeepSentences(parts) ==
    IF parts = <<>> THEN <<>>
    ELSE IF Len(Strip(Head(parts))) > 2
         THEN <<Strip(Head(parts))>> \o KeepSentences(Tail(parts))
         ELSE KeepSentences(Tail(parts))

\* _split_into_sentences(text)
split_into_sentences(t) == KeepSentences(SplitAtStops(t, 1))

\* len(sentence.split()): the number of runs of characters that are not blank
WordCount(t) ==
    Cardinality({i \in 1..Len(t) : t[i] # " " /\ (i = 1 \/ t[i - 1] = " ")})

RECURSIVE OwnSegments(_, _)
\* lines 139-151: one segment per sentence, max(1.0, words * 0.5) s long, one
\* behind the other from start_time on
OwnSegments(sentences, start_time) ==
    IF sentences = <<>> THEN <<>>
    ELSE LET duration == Max(TicksPerSecond, WordCount(Head(sentences)) * (TicksPerSecond \div 2))
         IN  <<[start |-> start_time, end |-> start_time + duration,
                text |-> Head(sentences), speaker |-> NoSpeaker]>>
             \o OwnSegments(Tail(sentences), start_time + duration)

RECURSIVE ConvertLoop(_)
\* the loop of _convert_whisperx_segments
ConvertLoop(ws) ==
    IF ws = <<>> THEN <<>>
    ELSE <<[start |-> Head(ws).start, end |-> Head(ws).end,
            speaker |-> IF Head(ws).speaker = NoSpeaker THEN "SPEAKER_0"
                        ELSE Head(ws).speaker,
            text |-> Head(ws).text,
            duration |-> Head(ws).end - Head(ws).start]>>
         \o ConvertLoop(Tail(ws))

\* _convert_whisperx_segments(whisperx_segments)
convert_whisperx_segments(ws) == SortByStart(ConvertLoop(ws))

RECURSIVE LabelLoop(_, _)
\* the loop of _create_labeled_transcription: the pieces appended to labeled_text
LabelLoop(segs, current_speaker) ==
    IF segs = <<>> THEN <<>>
    ELSE LET seg == Head(segs)
         IN  IF Strip(seg.text) = <<>> THEN LabelLoop(Tail(segs), current_speaker)
             ELSE (IF seg.speaker # current_speaker
                   THEN <<"\n", "[", seg.speaker, "]: ">> ELSE <<>>)
                  \o seg.text \o <<" ">>
                  \o LabelLoop(Tail(segs), seg.speaker)

\* "".join(labeled_text).strip(): the newline in front and the blanks behind go;
\* the blank that ends the label "[...]: " is kept when text follows it
StripJoined(t) ==
    LET body == IF t # <<>> /\ Head(t) = "\n" THEN Tail(t) ELSE t
    IN  RStrip(LStrip(body))

\* _create_labeled_transcription(segments)
create_labeled_transcription(segs) ==
    IF segs = <<>> THEN <<"Keine Sprecher-Segmente verfuegbar.">>
    ELSE StripJoined(LabelLoop(segs, NoSpeaker))

\* lines 200-205: the dictionary returned by the except branch
FallbackResult(transcription) ==
    [returned |-> TRUE, full_text |-> transcription, labeled_text |-> <<>>,
     segments |-> <<>>, transcription |-> transcription]

\* lines 40-48: the file is missing, empty, or there
CheckFile ==
    /\ pc = "check"
    /\ \E file \in {"missing", "empty", "present"} :
          IF file = "present"
          THEN /\ pc' = "request"
               /\ UNCHANGED error
          ELSE /\ error' = (IF file = "missing" THEN "Audio-Datei nicht gefunden"
                            ELSE "Audio-Datei ist leer")
               /\ pc' = "except"
    /\ UNCHANGED <<attempt, full_transcription, result>>
    /\ UNCHANGED diarVars
    /\ UNCHANGED extVars
    /\ UNCHANGED alignVars

\* lines 57-111: one pass of the request loop
Request ==
    /\ pc = "request"
    /\ \E outcome \in {"ok", "status", "timeout", "connection", "other"} :
          IF outcome = "ok"
          THEN /\ pc' = "json"
               /\ UNCHANGED <<attempt, error>>
          ELSE IF outcome # "other" /\ attempt < max_retries - 1
          THEN /\ attempt' = attempt + 1
               /\ UNCHANGED <<pc, error>>
          ELSE /\ error' = (CASE outcome = "status" -> "WhisperX-Fehler"
                              [] outcome = "timeout" -> "Timeout beim Senden an WhisperX-Server"
                              [] outcome = "connection" -> "Verbindungsfehler"
                              [] OTHER -> "RequestException")
               /\ pc' = "except"
               /\ UNCHANGED attempt
    /\ UNCHANGED <<full_transcription, result>>
    /\ UNCHANGED diarVars
    /\ UNCHANGED extVars
    /\ UNCHANGED alignVars

\* transcriptions of a response: none, "Hi. Yes." and "A.  No no no!"
Transcripts ==
    {<<>>,
     <<"H", "i", ".", " ", "Y", "e", "s", ".">>,
     <<"A", ".", " ", " ", "N", "o", " ", "n", "o", " ", "n", "o", "!">>}

\* segments of a response, with or without a 'speaker' entry
ResponseSegs ==
    {[start |-> sp[1], end |-> sp[2], text |-> t, speaker |-> who] :
        sp \in {<<100, 300>>, <<0, 100>>}, t \in Texts, who \in {NoSpeaker, "SPEAKER_1"}}

\* the JSON documents of a response: transcription, segments, and whether
\* str(response_data) contains 'speaker' (it does when a segment has the entry)
Responses ==
    {r \in [transcription : Transcripts,
            segments : SeqsUpTo(ResponseSegs, MaxAlign),
            mentions_speaker : BOOLEAN] :
        (\E i \in 1..Len(r.segments) : r.segments[i].speaker # NoSpeaker)
            => r.mentions_speaker}

\* lines 113-160: the response is decoded, the segments are taken from it or
\* made from the sentences, and segments that come with speakers are converted
ParseResponse ==
    /\ pc = "json"
    /\ \/ /\ error' = "Ungueltige JSON-Antwort"
          /\ pc' = "except"
          /\ UNCHANGED <<full_transcription, whisper_segments, result_segments>>
       \/ \E r \in Responses :
             /\ full_transcription' = r.transcription
             /\ whisper_segments' =
                    IF r.segments = <<>>
                    THEN OwnSegments(split_into_sentences(r.transcription), 0)
                    ELSE r.segments
             /\ IF WHISPERX_ENABLE_DIARIZATION /\ r.mentions_speaker
                THEN /\ result_segments' = convert_whisperx_segments(whisper_segments')
                     /\ pc' = "converted"
                ELSE /\ pc' = "diarize"
                     /\ UNCHANGED result_segments
             /\ UNCHANGED error
    /\ UNCHANGED <<attempt, result, speaker_segments>>
    /\ UNCHANGED diarVars
    /\ UNCHANGED extVars

\* lines 162-171: self.diarizer.process_audio raises or returns its segments;
\* an empty list is replaced by one segment of 5 s
Diarize ==
    /\ pc = "diarize"
    /\ \/ /\ error' = "process_audio"
          /\ pc' = "except"
          /\ UNCHANGED speaker_segments
       \/ \E found \in SeqsUpTo(SpeakerSegs, 1) :
             /\ speaker_segments' =
                    IF found = <<>>
                    THEN <<MakeSegment(0, 5 * TicksPerSecond, 0)>>
                    ELSE found
             /\ pc' = "assign"
             /\ UNCHANGED error
    /\ UNCHANGED <<attempt, full_transcription, result, whisper_segments, result_segments>>
    /\ UNCHANGED diarVars
    /\ UNCHANGED extVars

\* lines 178-194: the labelled transcription and the result of a run without
\* an exception
Finish ==
    /\ pc \in {"assigned", "converted"}
    /\ result' = [returned |-> TRUE,
                  full_text |-> full_transcription,
                  labeled_text |-> create_labeled_transcription(result_segments),
                  segments |-> result_segments,
                  transcription |-> full_transcription]
    /\ pc' = "returned"
    /\ UNCHANGED <<attempt, full_transcription, error>>
    /\ UNCHANGED diarVars
    /\ UNCHANGED extVars
    /\ UNCHANGED alignVars

\* lines 196-205: the except branch
Fallback ==
    /\ pc = "except"
    /\ result' = FallbackResult(full_transcription)
    /\ pc' = "returned"
    /\ UNCHANGED <<attempt, full_transcription, error>>
    /\ UNCHANGED diarVars
    /\ UNCHANGED extVars
    /\ UNCHANGED alignVars

InitProcess ==
    /\ pc = "check"
    /\ waveform = [speech |-> <<>>, tail |-> 0, reject |-> 0]
    /\ n_speakers = None
    /\ speech_segments = <<>>
    /\ features = <<>>
    /\ n_clusters = 0
    /\ km2 = <<>>
    /\ labels = <<>>
    /\ avg_distance = None
    /\ segments = <<>>
    /\ smoothed_once = <<>>
    /\ raised = FALSE
    /\ NoAlign
    /\ NoEstimate
    /\ max_speakers = MAX_SPEAKERS
    /\ NoProc
    /\ NoExt

NextProcess ==
    CheckFile \/ Request \/ ParseResponse \/ Diarize \/ Assign \/ Finish \/ Fallback

SpecProcess == InitProcess /\ [][NextProcess]_vars

----------------------------------------------------------------------------
(* The speaker statistics of main.py and audio/summarization_client.py *)

\* the speakers of a segment list: the keys of the dictionary
SpeakersOf(segs) == {segs[i].speaker : i \in 1..Len(segs)}

RECURSIVE SumDuration(_, _)
\* the durations of the segments of the speakers in who, added up
SumDuration(segs, who) ==
    IF segs = <<>> THEN 0
    ELSE (IF Head(segs).speaker \in who THEN Head(segs).duration ELSE 0)
         + SumDuration(Tail(segs), who)

RECURSIVE SumWords(_, _)
\* len(text.split()) of the segments of one speaker, added up
SumWords(segs, speaker) ==
    IF segs = <<>> THEN 0
    ELSE (IF Head(segs).speaker = speaker THEN WordCount(Head(segs).text) ELSE 0)
         + SumWords(Tail(segs), speaker)

\* the segments of one speaker, counted
CountSegments(segs, speaker) ==
    Cardinality({i \in 1..Len(segs) : segs[i].speaker = speaker})

\* (part / whole) * 100 kept as the fraction 100 * part / whole
Percent(part, whole) == [num |-> 100 * part, den |-> whole]

\* a percentage is above a number of per cent
PercentAbove(pct, limit) == pct.num > limit * pct.den

\* main.py line 647: total_time = sum(seg['duration'] for seg in segments)
main_total_time(segs) == SumDuration(segs, SpeakersOf(segs))

\* main.py line 659 divides by total_time without a test
MainStatisticsRaise(segs) == segs # <<>> /\ main_total_time(segs) = 0

\* ATAAudioApplication.calculate_speaker_statistics(segments): the dictionary
\* it returns when it does not raise
calculate_speaker_statistics(segs) ==
    [speaker \in SpeakersOf(segs) |->
        [total_time |-> SumDuration(segs, {speaker}),
         count      |-> CountSegments(segs, speaker),
         percentage |-> Percent(SumDuration(segs, {speaker}), main_total_time(segs))]]

\* SummarizationClient._calculate_speaker_statistics(segments); the averages
\* per segment and per minute and the formatted strings are left out
client_speaker_statistics(segs) ==
    LET total_duration == SumDuration(segs, SpeakersOf(segs))
        time_percentage(speaker) ==
            IF total_duration > 0
            THEN Percent(SumDuration(segs, {speaker}), total_duration)
            ELSE Percent(0, 1)
    IN  [speaker \in SpeakersOf(segs) |->
            [total_time      |-> SumDuration(segs, {speaker}),
             word_count      |-> SumWords(segs, speaker),
             segment_count   |-> CountSegments(segs, speaker),
             percentage      |-> time_percentage(speaker),
             participation_level |->
                 IF PercentAbove(time_percentage(speaker), 40) THEN "hoch"
                 ELSE IF PercentAbove(time_percentage(speaker), 20) THEN "mittel"
                 ELSE "niedrig"]]

\* main.py lines 644-661 called on the labelled segments
MainStatistics ==
    /\ pc = "stats"
    /\ IF MainStatisticsRaise(result_segments)
       THEN /\ raised' = TRUE
            /\ pc' = "raised"
            /\ UNCHANGED stats
       ELSE /\ stats' = calculate_speaker_statistics(result_segments)
            /\ pc' = "main_stats"
            /\ UNCHANGED raised
    /\ UNCHANGED <<waveform, n_speakers, speech_segments, features, n_clusters,
                   km2, labels, avg_distance, segments, smoothed_once, estVars>>
    /\ UNCHANGED alignVars
    /\ UNCHANGED procVars
    /\ UNCHANGED recVars
    /\ UNCHANGED upVars

\* summarization_client.py lines 173-219 called on the labelled segments
ClientStatistics ==
    /\ pc = "stats"
    /\ stats' = client_speaker_statistics(result_segments)
    /\ pc' = "client_stats"
    /\ UNCHANGED diarVars
    /\ UNCHANGED alignVars
    /\ UNCHANGED procVars
    /\ UNCHANGED recVars
    /\ UNCHANGED upVars

\* labelled segments as _assign_speakers_to_whisper_segments and
\* _convert_whisperx_segments make them, with spans (start, end) in ticks;
\* the last span has no length
StatSegs ==
    {[start |-> sp[1], end |-> sp[2], speaker |-> who, text |-> <<"h", "i">>,
      duration |-> sp[2] - sp[1]] :
        sp \in {<<0, 100>>, <<100, 300>>, <<600, 700>>, <<300, 300>>},
        who \in {"SPEAKER_0", "SPEAKER_1"}}

\* the lists are sorted by start, as both makers leave them
StatLists ==
    {l \in SeqsUpTo(StatSegs, MaxAlign) :
        \A i \in 1..(Len(l) - 1) : l[i].start <= l[i + 1].start}

InitStats ==
    /\ pc = "stats"
    /\ waveform = [speech |-> <<>>, tail |-> 0, reject |-> 0]
    /\ n_speakers = None
    /\ speech_segments = <<>>
    /\ features = <<>>
    /\ n_clusters = 0
    /\ km2 = <<>>
    /\ labels = <<>>
    /\ avg_distance = None
    /\ segments = <<>>
    /\ smoothed_once = <<>>
    /\ raised = FALSE
    /\ whisper_segments = <<>>
    /\ speaker_segments = <<>>
    /\ result_segments \in StatLists
    /\ NoEstimate
    /\ max_speakers = MAX_SPEAKERS
    /\ NoProc
    /\ NoStats
    /\ NoRec
    /\ NoUpload

NextStats == MainStatistics \/ ClientStatistics

SpecStats == InitStats /\ [][NextStats]_vars

----------------------------------------------------------------------------
(* AudioProcessor: the stream callbacks, the writer thread and stop() *)

RECURSIVE MixLoop(_, _, _)
\* _mix_if_possible (lines 75-128): while both buffers hold a block, the
\* first of each is popped and one chunk is appended to output_buffer (the
\* mix, or the system part alone); the chunk is named by the two blocks
MixLoop(sys, mic, out) ==
    IF sys # <<>> /\ mic # <<>>
    THEN MixLoop(Tail(sys), Tail(mic), Append(out, <<Head(sys), Head(mic)>>))
    ELSE <<sys, mic, out>>

\* what neither a callback nor the writer nor stop() touches
restVars == <<pc, diarVars, alignVars, procVars, statVars, upVars>>

\* system_callback (lines 55-62), called by the running system stream: the
\* block is appended and mixed while buffer_lock is held
system_callback ==
    /\ streams.system.running
    /\ streams.system.delivered < MaxBlocks
    /\ LET block == streams.system.delivered + 1
           mixed == MixLoop(Append(system_buffer, block), mic_buffer, output_buffer)
       IN  /\ streams' = [streams EXCEPT !.system.delivered = block]
           /\ system_buffer' = mixed[1]
           /\ mic_buffer' = mixed[2]
           /\ output_buffer' = mixed[3]
    /\ UNCHANGED <<is_recording, sf_file, writer, data_to_write, stopper>>
    /\ UNCHANGED restVars

\* mic_callback (lines 64-71), called by the running microphone stream
mic_callback ==
    /\ streams.mic.running
    /\ streams.mic.delivered < MaxBlocks
    /\ LET block == streams.mic.delivered + 1
           mixed == MixLoop(system_buffer, Append(mic_buffer, block), output_buffer)
       IN  /\ streams' = [streams EXCEPT !.mic.delivered = block]
           /\ system_buffer' = mixed[1]
           /\ mic_buffer' = mixed[2]
           /\ output_buffer' = mixed[3]
    /\ UNCHANGED <<is_recording, sf_file, writer, data_to_write, stopper>>
    /\ UNCHANGED restVars

\* _writer_loop, line 194: the loop condition, read without the lock
WriterTest ==
    /\ writer = "test"
    /\ writer' = IF is_recording \/ output_buffer # <<>> THEN "take" ELSE "close"
    /\ UNCHANGED <<is_recording, system_buffer, mic_buffer, output_buffer, sf_file,
                   streams, data_to_write, stopper>>
    /\ UNCHANGED restVars

\* _writer_loop, lines 195-201: up to 10 chunks are taken under buffer_lock
WriterTake ==
    /\ writer = "take"
    /\ LET chunks_to_process == Min(10, Len(output_buffer))
       IN  /\ data_to_write' = SubSeq(output_buffer, 1, chunks_to_process)
           /\ output_buffer' = SubSeq(output_buffer, chunks_to_process + 1,
                                      Len(output_buffer))
    /\ writer' = "write"
    /\ UNCHANGED <<is_recording, system_buffer, mic_buffer, sf_file, streams, stopper>>
    /\ UNCHANGED restVars

\* _writer_loop, lines 203-214: the chunks taken are written, then the sleep
WriterWrite ==
    /\ writer = "write"
    /\ sf_file' = [sf_file EXCEPT !.written = @ \o data_to_write]
    /\ writer' = "test"
    /\ UNCHANGED <<is_recording, system_buffer, mic_buffer, output_buffer, streams,
                   data_to_write, stopper>>
    /\ UNCHANGED restVars

\* _writer_loop, line 216: the loop is left and the file closed
WriterClose ==
    /\ writer = "close"
    /\ sf_file' = [sf_file EXCEPT !.closed = TRUE]
    /\ writer' = "exited"
    /\ UNCHANGED <<is_recording, system_buffer, mic_buffer, output_buffer, streams,
                   data_to_write, stopper>>
    /\ UNCHANGED restVars

\* stop(), line 226
StopFlag ==
    /\ stopper = "idle"
    /\ is_recording' = FALSE
    /\ stopper' = "system"
    /\ UNCHANGED <<system_buffer, mic_buffer, output_buffer, sf_file, streams,
                   writer, data_to_write>>
    /\ UNCHANGED restVars

\* stop(), lines 229-231: the system stream is stopped; no callback of it
\* runs after stop() of the stream has returned
StopSystem ==
    /\ stopper = "system"
    /\ streams' = [streams EXCEPT !.system.running = FALSE]
    /\ stopper' = "mic"
    /\ UNCHANGED <<is_recording, system_buffer, mic_buffer, output_buffer, sf_file,
                   writer, data_to_write>>
    /\ UNCHANGED restVars

\* stop(), lines 233-235: the microphone stream is stopped
StopMic ==
    /\ stopper = "mic"
    /\ streams' = [streams EXCEPT !.mic.running = FALSE]
    /\ stopper' = "join"
    /\ UNCHANGED <<is_recording, system_buffer, mic_buffer, output_buffer, sf_file,
                   writer, data_to_write>>
    /\ UNCHANGED restVars

\* stop(), lines 238-242: the writer thread is joined; the timeout of 5 s is
\* taken not to run out, the writer needing 10 ms for every 10 chunks
StopJoin ==
    /\ stopper = "join"
    /\ writer = "exited"
    /\ stopper' = "stopped"
    /\ UNCHANGED <<is_recording, system_buffer, mic_buffer, output_buffer, sf_file,
                   streams, writer, data_to_write>>
    /\ UNCHANGED restVars

\* the state start() leaves (lines 130-186): recording, the buffers empty, the
\* file open, both streams and the writer thread running
InitRecord ==
    /\ pc = "recording"
    /\ waveform = [speech |-> <<>>, tail |-> 0, reject |-> 0]
    /\ n_speakers = None
    /\ speech_segments = <<>>
    /\ features = <<>>
    /\ n_clusters = 0
    /\ km2 = <<>>
    /\ labels = <<>>
    /\ avg_distance = None
    /\ segments = <<>>
    /\ smoothed_once = <<>>
    /\ raised = FALSE
    /\ NoAlign
    /\ NoEstimate
    /\ max_speakers = MAX_SPEAKERS
    /\ NoProc
    /\ NoStats
    /\ is_recording = TRUE
    /\ system_buffer = <<>>
    /\ mic_buffer = <<>>
    /\ output_buffer = <<>>
    /\ sf_file = [written |-> <<>>, closed |-> FALSE]
    /\ streams = [system |-> [running |-> TRUE, delivered |-> 0],
                  mic    |-> [running |-> TRUE, delivered |-> 0]]
    /\ writer = "test"
    /\ data_to_write = <<>>
    /\ stopper = "idle"
    /\ NoUpload

NextRecord ==
    \/ system_callback
    \/ mic_callback
    \/ WriterTest
    \/ WriterTake
    \/ WriterWrite
    \/ WriterClose
    \/ StopFlag
    \/ StopSystem
    \/ StopMic
    \/ StopJoin

SpecRecord == InitRecord /\ [][NextRecord]_vars

----------------------------------------------------------------------------
(* WhisperXProcessor._process_standard_file *)

\* lines 226-229: max_retries, base_delay, backoff_factor, max_delay; line
\* 298: extra_delay
upload_max_retries == 3
base_delay == 2
backoff_factor == 2
max_delay == 30
extra_delay == 15

\* What one POST meets: an OK response whose body _parse_response decodes
\* or not, a response with a status of 500 and above or of 400..499, a
\* ConnectionError with or without "Connection aborted"/"Connection reset"
\* in its text, a Timeout, any other exception.
PostOutcomes ==
    {"ok", "ok_invalid_json", "5xx", "4xx", "connection_reset", "connection",
     "timeout", "other"}

\* backoff_factor ** n
BackoffPower(n) == IF n = 0 THEN 1 ELSE IF n = 1 THEN backoff_factor
                   ELSE backoff_factor * backoff_factor

\* lines 239-242: the delay before the attempt numbered n (from 0), if any
RetryDelay(n) ==
    IF n > 0
    THEN <<Min(base_delay * BackoffPower(n - 1), max_delay)>>
    ELSE <<>>

\* the exception a failed attempt raises out of the function on the last
\* attempt (lines 305, 311, 317); "none" where the handler goes on
RaisedOnLast(outcome) ==
    CASE outcome = "connection" -> "Connection failed after 3 attempts"
      [] outcome = "timeout"    -> "Timeout after 3 attempts"
      [] outcome \in {"4xx", "ok_invalid_json", "other"} -> "Failed after 3 attempts"
      [] OTHER -> "none"

\* lines 237-321: one pass of the for loop.  The exception raised for a 4xx
\* response (line 290) and the one _parse_response raises (line 279) are
\* raised inside the try of line 244 and caught on line 314.
UploadAttempt ==
    /\ pc = "upload"
    /\ \E outcome \in PostOutcomes :
          LET last  == upload_attempt = upload_max_retries - 1
              extra == IF outcome = "connection_reset" /\ ~last
                       THEN <<extra_delay>> ELSE <<>>
          IN  /\ posts' = Append(posts, outcome)
              /\ delays' = delays \o RetryDelay(upload_attempt) \o extra
              /\ IF outcome = "ok"
                 THEN /\ upload_result' = "returned"
                      /\ pc' = "uploaded"
                      /\ UNCHANGED upload_attempt
                 ELSE IF last
                 THEN /\ upload_result' =
                            IF RaisedOnLast(outcome) # "none" THEN RaisedOnLast(outcome)
                            ELSE "Failed to process file after 3 attempts"
                      /\ pc' = "upload_raised"
                      /\ UNCHANGED upload_attempt
                 ELSE /\ upload_attempt' = upload_attempt + 1
                      /\ UNCHANGED <<pc, upload_result>>
    /\ UNCHANGED <<diarVars, alignVars, procVars, statVars, recVars>>

InitUpload ==
    /\ pc = "upload"
    /\ waveform = [speech |-> <<>>, tail |-> 0, reject |-> 0]
    /\ n_speakers = None
    /\ speech_segments = <<>>
    /\ features = <<>>
    /\ n_clusters = 0
    /\ km2 = <<>>
    /\ labels = <<>>
    /\ avg_distance = None
    /\ segments = <<>>
    /\ smoothed_once = <<>>
    /\ raised = FALSE
    /\ NoAlign
    /\ NoEstimate
    /\ max_speakers = MAX_SPEAKERS
    /\ NoProc
    /\ NoExt

SpecUpload == InitUpload /\ [][UploadAttempt]_vars

----------------------------------------------------------------------------
(* Properties *)

\* C1: the intervals _detect_speech returns are in strictly ascending start
\* order and no interval begins before the one in front of it has ended.
C1_DetectAscendingDisjoint ==
    pc # "detect" =>
        \A i \in 1..(Len(speech_segments) - 1) :
            /\ speech_segments[i][1] < speech_segments[i + 1][1]
            /\ speech_segments[i][2] <= speech_segments[i + 1][1]

\* _detect_speech has returned three intervals
C1_Witness ==
    /\ pc = "extract"
    /\ Len(speech_segments) = 3

ResolvedCount ==
    IF Len(features) < 2 THEN Len(features) ELSE Min(n_speakers, Len(features))

\* C3: what _cluster_speakers returns has one label per feature row, each
\* label at least 0 and below the resolved cluster count.
C3_LabelRange ==
    pc = "create" =>
        /\ Len(labels) = Len(features)
        /\ \A i \in 1..Len(labels) : labels[i] >= 0 /\ labels[i] < ResolvedCount

\* two speakers returned for six rows after the recursive refinement
C3_Witness ==
    /\ pc = "create"
    /\ Len(features) = 6
    /\ n_speakers = 3
    /\ n_clusters = 2
    /\ \E i \in 1..6 : labels[i] = 1

\* C4 (as claimed): whenever the centroids of the first k-means are closer
\* together than the collapse threshold, _cluster_speakers returns all zeros.
C4_CollapseForEveryCount ==
    (pc = "create" /\ avg_distance # None /\ avg_distance < CollapseBelow)
        => labels = Zeros(Len(features))

\* C5 (as claimed): smoothing the list _smooth_speaker_transitions returned
\* gives that list again.
C5_SmoothIdempotent ==
    pc = "resmoothed" => segments = smoothed_once

\* a text of whitespace only
IsBlank(t) == \A i \in 1..Len(t) : t[i] = " "

\* a text from its first to its last character that is not whitespace
Trimmed(t) ==
    IF IsBlank(t) THEN <<>>
    ELSE LET solid == {i \in 1..Len(t) : t[i] # " "}
             lo    == CHOOSE i \in solid : \A j \in solid : i <= j
             hi    == CHOOSE i \in solid : \A j \in solid : j <= i
         IN  SubSeq(t, lo, hi)

\* the transcript segments whose text is not blank
NonBlank == {k \in 1..Len(whisper_segments) : ~IsBlank(whisper_segments[k].text)}

\* max(0, min(ends) - max(starts))
Overlap(w, sp) == Max(0, Min(w.end, sp.end) - Max(w.start, sp.start))

\* the pause between two spans: 0 when they touch or overlap
Gap(w, sp) == Max(0, Max(sp.start - w.end, w.start - sp.end))

HasOverlap(w) == \E j \in 1..Len(speaker_segments) : Overlap(w, speaker_segments[j]) > 0

\* the results made from transcript segment k
ResultsOf(k) ==
    {r \in 1..Len(result_segments) :
        /\ result_segments[r].start = whisper_segments[k].start
        /\ result_segments[r].end = whisper_segments[k].end
        /\ result_segments[r].text = Trimmed(whisper_segments[k].text)}

\* the first speaker segment in list order with the largest overlap
FirstLargestOverlap(w) ==
    CHOOSE j \in 1..Len(speaker_segments) :
        /\ \A i \in 1..Len(speaker_segments) :
              Overlap(w, speaker_segments[i]) <= Overlap(w, speaker_segments[j])
        /\ \A i \in 1..(j - 1) :
              Overlap(w, speaker_segments[i]) < Overlap(w, speaker_segments[j])

\* the first speaker segment in list order with the smallest pause
FirstNearest(w) ==
    CHOOSE j \in 1..Len(speaker_segments) :
        /\ \A i \in 1..Len(speaker_segments) :
              Gap(w, speaker_segments[j]) <= Gap(w, speaker_segments[i])
        /\ \A i \in 1..(j - 1) :
              Gap(w, speaker_segments[j]) < Gap(w, speaker_segments[i])

\* C6: a transcript segment with text that overlaps a speaker segment gets
\* the label of the speaker segment with the largest overlap, the first one
\* in list order among equals.
C6_LargestOverlapFirstWins ==
    pc = "assigned" =>
        \A k \in NonBlank :
            HasOverlap(whisper_segments[k]) =>
                /\ ResultsOf(k) # {}
                /\ \A r \in ResultsOf(k) :
                      result_segments[r].speaker =
                          speaker_segments[FirstLargestOverlap(whisper_segments[k])].speaker

\* the transcript 1.0-3.0 against [0-2 SPEAKER_0, 2-4 SPEAKER_1], and against
\* the same spans labelled the other way round
C6_Witness ==
    /\ pc = "assigned"
    /\ Len(whisper_segments) = 1
    /\ whisper_segments[1].start = 100 /\ whisper_segments[1].end = 300
    /\ speaker_segments \in {<<MakeSegment(0, 200, 0), MakeSegment(200, 400, 1)>>,
                             <<MakeSegment(0, 200, 1), MakeSegment(200, 400, 0)>>}
    /\ Len(result_segments) = 1
    /\ result_segments[1].speaker = speaker_segments[1].speaker

\* C7: a transcript segment with text that overlaps no speaker segment gets
\* SPEAKER_0 when there is no speaker segment or the nearest one is more than
\* 2.0 s away, and otherwise the label of the nearest one, the first one in
\* list order among equals.
C7_NearestWithinTwoSeconds ==
    pc = "assigned" =>
        \A k \in NonBlank :
            ~HasOverlap(whisper_segments[k]) =>
                /\ ResultsOf(k) # {}
                /\ \A r \in ResultsOf(k) :
                      result_segments[r].speaker =
                          IF speaker_segments = <<>> THEN "SPEAKER_0"
                          ELSE LET j == FirstNearest(whisper_segments[k])
                               IN  IF Gap(whisper_segments[k], speaker_segments[j])
                                        > MaxNearestDist
                                   THEN "SPEAKER_0"
                                   ELSE speaker_segments[j].speaker

\* a transcript segment exactly 2.0 s behind two equally near speaker
\* segments takes the label SPEAKER_1 of the first of them
C7_Witness ==
    /\ pc = "assigned"
    /\ Len(whisper_segments) = 1
    /\ whisper_segments[1].start = 600
    /\ speaker_segments = <<MakeSegment(200, 400, 1), MakeSegment(0, 400, 0)>>
    /\ Len(result_segments) = 1
    /\ result_segments[1].speaker = "SPEAKER_1"

\* every result carries the span and text of a transcript segment with text
C8_SpansFromTranscript ==
    pc = "assigned" =>
        \A r \in 1..Len(result_segments) :
            /\ \E k \in NonBlank : r \in ResultsOf(k)
            /\ result_segments[r].duration =
                   result_segments[r].end - result_segments[r].start

\* C8: every segment the aligner emits carries the start and end of its
\* transcript segment and duration = end - start, and the call leaves both
\* of its arguments as they were.
C8_TranscriptTimingKept ==
    /\ []C8_SpansFromTranscript
    /\ [][pc' = "assigned" => UNCHANGED <<whisper_segments, speaker_segments>>]_vars

\* a result whose span 1.0-3.0 is the transcript's, not that of the matched
\* speaker segment 0-2
C8_Witness ==
    /\ pc = "assigned"
    /\ Len(result_segments) = 1
    /\ result_segments[1].start = 100 /\ result_segments[1].end = 300
    /\ speaker_segments = <<MakeSegment(0, 200, 1)>>
    /\ result_segments[1].speaker = "SPEAKER_1"

\* C9: the result holds exactly one segment per transcript segment with
\* non-blank text, none for the blank ones, in ascending start order.
C9_OnePerNonBlankSorted ==
    pc = "assigned" =>
        /\ Len(result_segments) = Cardinality(NonBlank)
        /\ \A k \in NonBlank :
              Cardinality(ResultsOf(k)) =
                  Cardinality({j \in NonBlank :
                      /\ whisper_segments[j].start = whisper_segments[k].start
                      /\ whisper_segments[j].end = whisper_segments[k].end
                      /\ Trimmed(whisper_segments[j].text) = Trimmed(whisper_segments[k].text)})
        /\ \A r \in 1..(Len(result_segments) - 1) :
              result_segments[r].start <= result_segments[r + 1].start

\* two segments with text given latest first come out earliest first
C9_Witness ==
    /\ pc = "assigned"
    /\ Len(whisper_segments) = 2
    /\ whisper_segments[1].start = 600
    /\ whisper_segments[2].start = 100
    /\ Len(result_segments) = 2
    /\ result_segments[1].start = 100

\* the detector gave a verdict on every frame it was given, and none was speech
NoSpeechFound ==
    /\ ~DetectorRejects(waveform)
    /\ \A k \in 1..FramesVisited(waveform) : ~waveform.speech[k]

\* C10: when no frame is classified as speech, process_audio runs to its
\* return without raising, every collection on the way is empty, and the
\* list it returns is empty.
C10_SilenceGivesEmptyList ==
    (NoSpeechFound /\ pc # "detect") =>
        /\ ~raised
        /\ pc \in {"extract", "cluster", "create", "smooth", "done"}
        /\ speech_segments = <<>>
        /\ pc \in {"cluster", "create", "smooth", "done"} => features = <<>>
        /\ pc \in {"create", "smooth", "done"} => labels = <<>>
        /\ pc \in {"smooth", "done"} => segments = <<>>
        /\ pc # "done" => ENABLED Next

\* a waveform of silence only has been processed to the end
C10_Witness ==
    /\ pc = "done"
    /\ NoSpeechFound
    /\ Len(waveform.speech) >= 17
    /\ segments = <<>>
    /\ ~raised

\* C11 (as claimed): whatever list it is given, the list that
\* _smooth_speaker_transitions returns is in ascending start order and holds
\* no segment of zero duration.
C11_SmoothSortedNoZero ==
    pc = "done" =>
        /\ \A i \in 1..(Len(segments) - 1) : segments[i].start <= segments[i + 1].start
        /\ \A i \in 1..Len(segments) : segments[i].end - segments[i].start # 0

\* C12 (as claimed): no step of process_audio changes the diarizer's
\* speaker-count setting n_speakers.
C12_SpeakerCountKept == [][n_speakers' = n_speakers]_vars

\* the durations of the segments from position i on, added up
RECURSIVE TotalDuration(_, _)
TotalDuration(segs, i) ==
    IF i > Len(segs) THEN 0 ELSE segs[i].duration + TotalDuration(segs, i + 1)

\* C14 (as claimed): for two 5 s tones one behind the other, every frame
\* speech, process_audio finds 2 speech intervals, gives them 2 different
\* labels and returns 2 segments whose durations add up to 10 s within one
\* frame duration.
C14_TwoTonesTwoSpeakers ==
    (waveform = TwoTones /\ pc = "done") =>
        /\ Len(speech_segments) = 2
        /\ labels[1] # labels[2]
        /\ Len(segments) = 2
        /\ TotalDuration(segments, 1) >= 10 * TicksPerSecond - frame_duration \div 10
        /\ TotalDuration(segments, 1) <= 10 * TicksPerSecond + frame_duration \div 10

\* every cluster 0..nc-1 of the labelling has at least min_cluster_size rows
AllBigEnough(lab, nc) ==
    \A c \in 0..(nc - 1) : CountLabel(lab, c) >= min_cluster_size

\* one step of the size check, in _cluster_speakers or in
\* _validate_and_refine_clusters
C15_SizeCheckStep ==
    pc \in {"sizecheck", "validate"} =>
        /\ (n_clusters > 2 /\ ~AllBigEnough(labels, n_clusters)) =>
               /\ pc' = "validate"
               /\ n_clusters' = n_clusters - 1
               /\ labels' \in Labelings(Len(features), n_clusters - 1)
        /\ (n_clusters <= 2 /\ ~AllBigEnough(labels, n_clusters)) =>
               /\ pc' = "create"
               /\ labels' = Zeros(Len(features))
        /\ pc' = "create" =>
               \/ labels' = Zeros(Len(features))
               \/ AllBigEnough(labels, n_clusters)

\* C15: a labelling with an undersized cluster is fit again with one cluster
\* less while the count is above 2 and gives all zeros at a count of 2; the
\* labelling accepted before the median filter is all zeros or has at least
\* min_cluster_size rows in every cluster, also after the separation check
\* replaced the labels by a 2-cluster fit.
C15_MinimumClusterSize == [][C15_SizeCheckStep]_vars

\* after the separation check refit with 2 clusters, a 3/3 split of six rows
\* was accepted
C15_Witness ==
    /\ pc = "create"
    /\ retry_distance # None
    /\ Len(features) = 6
    /\ CountLabel(labels, 0) = 3
    /\ CountLabel(labels, 1) = 3

\* the mean centroid distance of the 2-cluster fit: that of the refit of
\* line 182 when there was one, else that of the first fit
TwoClusterDistance ==
    IF retry_distance # None THEN retry_distance ELSE avg_distance

\* C16 (as claimed): when the first clustering is too similar and the
\* 2-cluster clustering is still below the collapse threshold, the labels
\* returned are all zeros, whatever the first cluster count was.
C16_CollapseAfterRetry ==
    (/\ pc = "create"
     /\ avg_distance # None
     /\ avg_distance < TooSimilar
     /\ TwoClusterDistance < CollapseBelow)
        => labels = Zeros(Len(features))

\* the return of an accepted labelling
C17_ReturnStep ==
    (/\ pc \in {"sizecheck", "validate"}
     /\ pc' = "create"
     /\ AllBigEnough(labels, n_clusters))
        => labels' = IF Len(labels) > 5 THEN medfilt(labels) ELSE labels

\* C17 (as claimed): with more than 5 rows the labels returned are the
\* window-5 median filter of the accepted k-means labelling on every path
\* that does not collapse; with 5 rows or fewer they are that labelling.
C17_MedianFilterOnEveryPath == [][C17_ReturnStep]_vars

\* the count of the first k-means with 5 rows or more
C18_CountInRange ==
    (pc = "kmeans" /\ Len(features) >= 5) =>
        /\ n_clusters >= 2
        /\ n_clusters <= max_speakers

\* C18 (as claimed): with at least 5 rows the first k-means runs with a count
\* in [2, max_speakers] for every hint, estimate and setting of max_speakers;
\* with fewer rows the count is the hint or estimate capped by the rows.
C18_FirstCountClamped ==
    /\ []C18_CountInRange
    /\ [][(pc = "clamp" /\ Len(features) < 5)
             => n_clusters' = Min(n_speakers, Len(features))]_vars

\* the upper end of the range of candidate counts:
\* max(2, min(max_speakers, rows/3, 5))
UpperCount ==
    LET third == Len(features) \div 3
        capped == IF max_speakers < third THEN max_speakers ELSE third
        upTo5  == IF capped < 5 THEN capped ELSE 5
    IN  IF upTo5 < 2 THEN 2 ELSE upTo5

\* the candidate counts >= 2 that got a silhouette score above the baseline
ScoredBetter ==
    {k \in 2..UpperCount : silhouette[k].ok /\ silhouette[k].score > BaselineScore}

\* _estimate_n_speakers has returned its count to line 148
EstimateReturned == pc = "clamp" /\ silhouette # <<>>

\* C19 (as claimed): the estimate is the candidate count >= 2 of
\* 2..max(2, min(max_speakers, rows/3, 5)) with the highest silhouette score;
\* only when none scores above the baseline it is 2 (10 rows or more) or 1;
\* it is never above the upper end of the range.
C19_BestSilhouetteCount ==
    EstimateReturned =>
        /\ n_speakers <= UpperCount
        /\ IF ScoredBetter = {}
           THEN n_speakers = IF Len(features) >= 10 THEN 2 ELSE 1
           ELSE /\ n_speakers \in ScoredBetter
                /\ \A k \in ScoredBetter :
                      silhouette[k].score <= silhouette[n_speakers].score

\* C19 (amended): with fewer than 4 rows the estimate is 1 and no candidate
\* is tried; with 4 rows or more it is the smallest candidate count >= 2 with
\* the highest silhouette score above the baseline, and 2 (10 rows or more)
\* or 1 when no candidate scores above the baseline; it is never above the
\* upper end of the range.
C19_BestSilhouetteFromFourRows ==
    EstimateReturned =>
        IF Len(features) < 4 THEN n_speakers = 1
        ELSE /\ n_speakers <= UpperCount
             /\ IF ScoredBetter = {}
                THEN n_speakers = IF Len(features) >= 10 THEN 2 ELSE 1
                ELSE /\ n_speakers \in ScoredBetter
                     /\ \A k \in ScoredBetter :
                           /\ silhouette[k].score <= silhouette[n_speakers].score
                           /\ silhouette[k].score = silhouette[n_speakers].score
                                 => n_speakers <= k

\* nine rows, candidates 2 and 3 both with the highest score: 2 is returned
C19_Witness ==
    /\ EstimateReturned
    /\ Len(features) = 9
    /\ UpperCount = 3
    /\ silhouette[2].ok /\ silhouette[3].ok
    /\ silhouette[2].score = 5 /\ silhouette[3].score = 5
    /\ n_speakers = 2

\* C20 (as claimed): whatever k-means or the silhouette score does for one
\* candidate count, _estimate_n_speakers does not raise and returns a count.
C20_CandidateFailureSkipped ==
    silhouette # <<>> =>
        /\ ~raised
        /\ pc = "clamp"
        /\ n_speakers \in 1..UpperCount

\* the text holds the name of the failure
NamesFailure(text, failure) == \E i \in 1..Len(text) : text[i] = failure

\* the four keys of a result dictionary, besides the model's mark `returned`
ResultKeys == {"full_text", "labeled_text", "segments", "transcription"}

\* C13 (as claimed): process_complete_audio always comes to its return, the
\* dictionary it returns has the keys full_text, labeled_text, segments and
\* transcription, and after a failure its transcript text names the failure.
C13_FailureNamedInTranscript ==
    /\ pc \in {"check", "request", "json", "diarize", "assign", "assigned",
               "converted", "except"} => ENABLED NextProcess
    /\ pc = "returned" =>
          /\ result.returned
          /\ ResultKeys \subseteq DOMAIN result
          /\ error # NoError =>
                \/ NamesFailure(result.transcription, error)
                \/ NamesFailure(result.full_text, error)


\* the raw intervals _detect_speech hands to _merge_segments
RawOfWaveform == RawSegments(waveform, FramesVisited(waveform))

\* the positions k behind which a chain ends: the gap from raw interval k to
\* raw interval k + 1 is not below the merge-gap threshold
ChainBreaks(raw) ==
    {k \in 1..(Len(raw) - 1) : ~GapBelowThreshold(raw[k + 1][1], raw[k][2])}

\* where the maximal chains of consecutive raw intervals begin
ChainStarts(raw, breaks) ==
    IF raw = <<>> THEN {} ELSE {1} \cup {k + 1 : k \in breaks}

\* where the chain that begins at raw interval s ends
ChainEnd(raw, breaks, s) ==
    IF \E k \in breaks : k >= s
    THEN CHOOSE k \in breaks : k >= s /\ \A j \in breaks : j >= s => k <= j
    ELSE Len(raw)

\* the maximal chains, as <<first, last>> positions
MaximalChains(raw) ==
    LET breaks == ChainBreaks(raw)
    IN  {<<s, ChainEnd(raw, breaks, s)>> : s \in ChainStarts(raw, breaks)}

\* the chains among cs that last at least the minimum speech duration
KeptChains(raw, cs) ==
    {c \in cs : raw[c[2]][2] - raw[c[1]][1] >= MIN_SPEECH_DURATION}

\* the place of a chain among the chains cs
ChainRank(cs, c) == Cardinality({d \in cs : d[1] <= c[1]})

\* C21: _merge_segments returns exactly the maximal chains of consecutive raw
\* intervals whose successive gaps are below the merge-gap threshold, each as
\* (start of its first, end of its last interval), in their order, and only
\* those that last at least the minimum speech duration; what lies on the
\* two sides of a dropped chain stays apart.
C21_MergedAreLongMaximalChains ==
    (pc # "detect" /\ ~DetectorRejects(waveform)) =>
        LET raw  == RawOfWaveform
            kept == KeptChains(raw, MaximalChains(raw))
        IN  /\ Len(speech_segments) = Cardinality(kept)
            /\ \A c \in kept :
                  speech_segments[ChainRank(kept, c)] = <<raw[c[1]][1], raw[c[2]][2]>>

\* a short chain was dropped between two chains that were kept, and the two
\* came back as two intervals
C21_Witness ==
    /\ pc = "extract"
    /\ Len(speech_segments) = 2
    /\ LET raw == RawOfWaveform
           all == MaximalChains(raw)
       IN  \E c \in all \ KeptChains(raw, all) :
              /\ speech_segments[1][2] <= raw[c[1]][1]
              /\ raw[c[2]][2] <= speech_segments[2][1]

\* every complete frame of the waveform is one the detector calls speech
FullySpeech(w) == \A k \in 1..Len(w.speech) : w.speech[k]

\* C22 (as claimed): _detect_speech classifies every complete frame of the
\* waveform, the last one included: what it returns is built from the
\* verdicts on all complete frames, and for a waveform that is speech
\* throughout and long enough the interval ends where the last complete
\* frame ends.
C22_LastFrameClassified ==
    (pc # "detect" /\ ~DetectorRejects(waveform)) =>
        /\ FramesVisited(waveform) = Len(waveform.speech)
        /\ speech_segments
              = merge_segments(RawSegments(waveform, Len(waveform.speech)))
        /\ (FullySpeech(waveform)
              /\ LongEnough(0, TimeOf(Len(waveform.speech) * FrameLength)))
             => /\ Len(speech_segments) = 1
                /\ speech_segments[1][2] = TimeOf(Len(waveform.speech) * FrameLength)

\* _detect_speech on a waveform one of whose frames the detector rejects,
\* that frame taken as non-speech
SkipRejected(w) ==
    [w EXCEPT !.speech = [k \in 1..Len(w.speech) |-> w.speech[k] /\ k # w.reject],
              !.reject = 0]

\* C23 (as claimed): when the detector rejects a frame with an error,
\* _detect_speech takes that frame as non-speech and goes on: it does not
\* raise, and it returns the intervals built from the other frames.
C23_RejectedFrameSkipped ==
    (pc # "detect" /\ DetectorRejects(waveform)) =>
        /\ ~raised
        /\ speech_segments = detect_speech(SkipRejected(waveform))

\* C24 (as claimed): when the feature computation fails for one interval,
\* _extract_features does not raise; it returns a matrix that still has one
\* row per interval.
C24_FallbackRowOnFailure ==
    (pc # "extract"
       /\ \E k \in 1..Len(speech_segments) : FeatureFails(waveform, speech_segments[k]))
      => /\ ~raised
         /\ pc = "cluster"
         /\ Len(features) = Len(speech_segments)

\* the list is in ascending order of start
AscendingStarts(s) == \A i \in 1..(Len(s) - 1) : s[i].start <= s[i + 1].start

\* what the second pass is claimed to make of three segments left, interior
\* and right that the first pass leaves as they are
FlickerClaimed(s) ==
    LET left     == s[1]
        interior == s[2]
        right    == s[3]
    IN  IF interior.duration < min_duration
           /\ left.speaker = right.speaker
           /\ left.speaker # interior.speaker
        THEN IF interior.start - left.end < gap_threshold
                /\ right.start - interior.end < gap_threshold
             THEN <<[left EXCEPT !.end = right.end,
                                 !.duration = right.end - left.start]>>
             ELSE <<left, [interior EXCEPT !.speaker = left.speaker], right>>
        ELSE s

\* a call of _smooth_speaker_transitions on three segments in ascending
\* order of which the first pass merges none
C25_FlickerStep ==
    (pc = "smooth" /\ Len(segments) = 3 /\ AscendingStarts(segments)
       /\ MergePass(segments, 1) = segments)
      => segments' = FlickerClaimed(segments)

\* C25 (as claimed): in the second pass an interior segment shorter than
\* 1.0 s between two neighbours of one speaker that is not its own gets the
\* neighbours' speaker, and the three are merged into one, from the left
\* start to the right end, exactly when interior.start - left.end and
\* right.start - interior.end are both below 0.3 s; a longer interior
\* segment, or one between differing neighbours, stays as it is.
C25_FlickerMergedOnBothGaps == [][C25_FlickerStep]_vars

\* the largest end of the segments (0 for no segments)
MaxEnd(segs) ==
    IF segs = <<>> THEN 0
    ELSE CHOOSE m \in {segs[i].end : i \in 1..Len(segs)} :
            \A i \in 1..Len(segs) : segs[i].end <= m

\* C26 (as claimed): the speaker statistics give, for each speaker of the
\* list, the sum of the speaker's durations and that sum as a percentage of
\* the largest end timestamp of the list, and computing them raises for no
\* list, one of durations that are all zero included.
C26_PercentOfMaximumEnd ==
    pc # "stats" =>
        /\ ~raised
        /\ DOMAIN stats = SpeakersOf(result_segments)
        /\ \A speaker \in DOMAIN stats :
              /\ stats[speaker].total_time = SumDuration(result_segments, {speaker})
              /\ MaxEnd(result_segments) > 0 =>
                    stats[speaker].percentage.num * MaxEnd(result_segments)
                      = 100 * stats[speaker].total_time * stats[speaker].percentage.den

\* the labels that occur in a label vector
LabelsUsed(lab) == {lab[i] : i \in 1..Len(lab)}

\* C27: when _cluster_speakers returns labels for fewer than
\* 2 * min_cluster_size = 6 feature rows, they are all zero, whatever the
\* speaker-count hint and whatever k-means returned.
C27_FewRowsOneSpeaker ==
    (pc = "create" /\ Len(features) < 2 * min_cluster_size)
      => labels = Zeros(Len(features))

\* five rows that k-means split into two clusters came back as one speaker
C27_Witness ==
    /\ pc = "create"
    /\ Len(features) = 2 * min_cluster_size - 1
    /\ n_clusters = 2
    /\ km2 # <<>>
    /\ LabelsUsed(km2) = {0, 1}
    /\ avg_distance >= TooSimilar
    /\ labels = Zeros(Len(features))

\* the return of an accepted labelling of more than 5 rows through the
\* median filter of lines 209-210
C28_FilteredReturnStep ==
    (/\ pc = "sizecheck"
     /\ pc' = "create"
     /\ AllBigEnough(labels, n_clusters)
     /\ Len(labels) > 5)
        => \A c \in LabelsUsed(labels') : CountLabel(labels', c) >= min_cluster_size

\* C28 (as claimed): in the labels _cluster_speakers returns after the median
\* filter, every label that occurs is carried by at least min_cluster_size
\* rows.
C28_FilterKeepsClusterSize == [][C28_FilteredReturnStep]_vars

\* the chunks the callbacks have appended to output_buffer so far: one for
\* every block both streams have delivered
ChunksAppended == Min(streams.system.delivered, streams.mic.delivered)

\* C29 (as claimed): whatever the order in which the two callbacks, the
\* writer thread and stop() run, every chunk a callback appended to
\* output_buffer has been written to the sound file when the writer thread
\* closes it, no chunk is appended once the writer loop is left, and
\* output_buffer is empty once stop() has returned.
C29_EveryChunkWritten ==
    /\ writer \in {"close", "exited"} => output_buffer = <<>>
    /\ writer = "exited" => Len(sf_file.written) = ChunksAppended
    /\ stopper = "stopped" => output_buffer = <<>>

\* C30 (as claimed): a 4xx response ends the upload at once, the client error
\* being raised with no wait and no further POST; 5xx responses, timeouts and
\* connection errors are retried; there are at most 3 POSTs in all and the
\* first OK response is returned.
C30_ClientErrorNotRetried ==
    /\ Len(posts) <= upload_max_retries
    /\ \A i \in 1..Len(posts) :
          /\ posts[i] = "4xx" =>
                /\ i = Len(posts)
                /\ pc = "upload_raised"
          /\ posts[i] = "ok" =>
                /\ i = Len(posts)
                /\ upload_result = "returned"
          /\ (posts[i] \in {"5xx", "timeout", "connection", "connection_reset"}
                /\ i < upload_max_retries /\ i = Len(posts)) => pc = "upload"


=============================================================================
